---- MODULE Spec2Model ----
(***************************************************************************)
(* Model of the concurrent transcoding orchestrator (main.py) and of the   *)
(* fallback executor (compressor.py).                                      *)
(*                                                                         *)
(*  Spec      main(): submission loop, worker tasks, limiters, the lock,   *)
(*            the UI event queue and the update_stats consumer thread.     *)
(*  ChainSpec compress_file(): the fallback chains as a pure function of   *)
(*            the outcomes of the external tool.                           *)
(*  TrackSpec _run_ffmpeg_with_progress(): the parser of the progress      *)
(*            stream, on every stream of lines.                            *)
(*  ProbeSpec get_media_duration_seconds(): the four strategies of the     *)
(*            duration prober on every combination of ffprobe outputs.     *)
(*  RateSpec  the rolling throughput of update_stats on the buffer of     *)
(*            completion timestamps.                                       *)
(*  LogSpec   the failure sink: main's start and the finally blocks of    *)
(*            the tasks, with the lock and the pieces of an append.        *)
(*  PipeSpec  the pipes of an external process started by                 *)
(*            _run_ffmpeg_with_progress() or by the sequential runner of  *)
(*            compress_media.py, under fair scheduling.                    *)
(*  ScenarioSpec, PoolSpec                                                 *)
(*            main() on one directory each, in runs without faults in      *)
(*            which the external tool behaves as the scenario tells.       *)
(***************************************************************************)
EXTENDS Integers, Sequences, FiniteSets, TLC

(***************************************************************************)
(* Bounds of the model.                                                    *)
(***************************************************************************)
\* tasks that reach their finally block in the model of the failure sink
LogWorkers == 2
\* units an operating-system pipe holds before a write to it blocks
PipeCap == 2
\* most units an external process writes to one of its streams
MaxWrites == PipeCap + 1
\* completions in the model of the rolling throughput
MaxCompletions == 1001
\* capacity of video_sem in the model (5 in main.py)
VideoCap == 1
\* capacity of image_sem in the model (50 in main.py)
ImageCap == 2
\* os.cpu_count() of the host
CpuCount == 2
\* most events the model lets wait on ui_events at once
MaxQueue == 2
\* most exceptions raised inside tasks in one run
MaxFaults == 1
\* most invocations of the external tool that exit non-zero in one run
MaxFailed == 2
\* longest stderr text of one invocation of the external tool
MaxErrLen == 2
\* most lines one streaming attempt writes before its terminal marker or its end
MaxLines == 2

(***************************************************************************)
(* compressor.py: extension classes                                        *)
(***************************************************************************)
VIDEO_EXTS == {".mp4", ".mov", ".mkv", ".avi", ".webm"}
IMAGE_EXTS == {".jpg", ".jpeg", ".png"}

\* str.lower() on the extensions that occur in the listings
Lower(e) ==
    CASE e = ".MP4" -> ".mp4"
      [] e = ".MOV" -> ".mov"
      [] e = ".JPG" -> ".jpg"
      [] e = ".PNG" -> ".png"
      [] OTHER -> e

(***************************************************************************)
(* pipeline.py: its own extension classes and its classifier               *)
(***************************************************************************)
pipeline_VIDEO_EXTS == {".mp4", ".mkv", ".mov", ".avi"}
pipeline_IMAGE_EXTS == {".jpg", ".jpeg", ".png"}

\* lines 12-18: the extension is lowered, then looked up, videos first
classify(e) ==
    IF Lower(e) \in pipeline_VIDEO_EXTS THEN "video"
    ELSE IF Lower(e) \in pipeline_IMAGE_EXTS THEN "image"
    ELSE "other"

\* Option values: None is the empty tuple, a value x is <<x>>
None == << >>
Some(x) == <<x>>

(***************************************************************************)
(* A line of the progress stream of the external tool: key is the text     *)
(* before the first '=' ("" for a line without one), ok tells whether the  *)
(* value parses, num is the parsed value.                                  *)
(***************************************************************************)
Line(k, ok, n) == [key |-> k, ok |-> ok, num |-> n]

\* progress=end
EndLine == Line("progress", TRUE, 1)

(***************************************************************************)
(* Directory listings: one entry per file, with its extension, its size,   *)
(* the size of the output file the external tool leaves for it, the        *)
(* duration the probe finds (None, or whole seconds) and the lines a       *)
(* streaming attempt on it writes before its terminal marker.              *)
(* A file's name is its index in the listing.                              *)
(***************************************************************************)
Entry(e, sz, out, dur, lines) ==
    [ext |-> e, size |-> sz, out |-> out, dur |-> dur, lines |-> lines]

BatchListing ==
    << Entry(".jpg", 2, 1, None, << >>), Entry(".PNG", 1, 2, None, << >>),
       Entry(".jpeg", 1, 0, None, << >>), Entry(".txt", 1, 0, None, << >>) >>

ScenarioListing ==
    << Entry(".mp4", 2, 1, Some(10), <<Line("out_time_ms", TRUE, 5000000)>>),
       Entry(".png", 1, 2, None, << >>), Entry(".doc", 1, 0, None, << >>) >>

VideoListing ==
    << Entry(".mkv", 2, 1, None, << >>), Entry(".MOV", 1, 1, Some(0), << >>) >>

\* more videos than the pool has workers left for, listed before an image
PoolListing ==
    << Entry(".mp4", 2, 1, Some(10), <<Line("speed", TRUE, 234)>>),
       Entry(".mov", 1, 1, None, << >>), Entry(".mkv", 1, 1, None, << >>),
       Entry(".jpg", 1, 1, None, << >>) >>

Listings == {BatchListing, ScenarioListing, VideoListing}

VARIABLES
    listing,                \* os.listdir(input_directory) with the files' sizes
    mpc,                    \* position of the main thread
    idx,                    \* position of the submission loop in files_to_process
    all_done,               \* main's local of the wait loop
    spc,                    \* position of the update_stats thread
    cur_ev,                 \* the event update_stats is applying
    tpc,                    \* position of each task
    res,                    \* each task's local res
    attempt,                \* number of failed attempts of each task's chain
    t_errs,                 \* compress_file's err, err2, err3 of each task
    result,                 \* each task's local result
    percent,                \* the local percent of each task's streaming attempt
    line_no,                \* lines of stdout each task's attempt has read
    finish_order,           \* auxiliary: the jobs that have run lines 198-211 and
                            \* whose completion event is not applied yet, in the
                            \* order of their with-lock blocks
    video_sem, image_sem,   \* values of the semaphores
    holders,                \* tasks between sem.acquire() and sem.release()
    ui_events,              \* the UI event queue
    stop_event,
    submitted_count, completed_count, active_jobs,
    active_filenames, active_file_sizes, progress_by_file,
    total_original_size, total_compressed_size,
    completed_timestamps,
    failed_log,             \* blocks of failed.txt, oldest first
    future_exc,             \* tasks whose future holds an exception
    records,                \* every res built by a task
    ui_results, ui_errors,  \* AppUI._results (oldest first), AppUI._errors
    n_faults, n_failed,     \* exceptions and non-zero exits so far in the run
    c_ext, c_cb, c_outs,    \* compress_file: extension, progress_cb given, tool outcomes
    c_pc,                   \* compress_file: position
    c_err,                  \* compress_file: the locals err, err2, err3
    c_invoked,              \* compress_file: attempts run so far, in order
    c_ret,                  \* compress_file: returned dict
    p_dur,                  \* _run_ffmpeg_with_progress: duration_s
    p_stream,               \* lines the process writes to stdout in each attempt
    p_attempt,              \* attempt of the chain that is streaming
    p_pos,                  \* lines of the attempt read so far
    p_percent,              \* _run_ffmpeg_with_progress: the local percent
    p_samples,              \* calls of progress_cb so far, oldest first
    p_pc,                   \* _run_ffmpeg_with_progress: position
    lock,                   \* failure sink: holder of the lock, 0 when free
    log_file,               \* failure sink: the pieces written to failed.txt
    log_main,               \* failure sink: position of main
    log_pc,                 \* failure sink: position of each task's finally block
    log_err,                \* failure sink: whether res.get('error') is truthy
    d_outs,                 \* get_media_duration_seconds: what each ffprobe call gives
    d_pc,                   \* get_media_duration_seconds: position
    d_calls,                \* get_media_duration_seconds: ffprobe calls made, in order
    d_ret,                  \* get_media_duration_seconds: returned value
    r_gap,                  \* throughput: seconds between two completions
    r_now,                  \* throughput: time.time(), in seconds
    r_stamps,               \* throughput: completed_timestamps
    r_all,                  \* throughput, auxiliary: the time of every completion
    r_rate,                 \* throughput: update_stats' local count_window
    r_pc,                   \* throughput: position of update_stats
    x_runner,               \* pipes: who started the tool, the streaming attempt or the poll loop
    x_out,                  \* pipes: units the tool has still to write to stdout
    x_err,                  \* pipes: units the tool has still to write to stderr
    x_stdout,               \* pipes: units in the stdout pipe
    x_stderr,               \* pipes: units in the stderr pipe
    x_proc,                 \* pipes: state of the tool
    x_pc                    \* pipes: position of the orchestrator

mainVars == <<listing, mpc, idx, all_done>>
statsVars == <<spc, cur_ev, ui_results, ui_errors>>
taskVars == <<tpc, res, attempt, t_errs, result, future_exc, records>>
semVars == <<video_sem, image_sem, holders>>
envVars == <<n_faults, n_failed>>
aggVars == <<submitted_count, completed_count, active_jobs, active_filenames,
             active_file_sizes, progress_by_file, total_original_size,
             total_compressed_size, completed_timestamps>>
streamVars == <<percent, line_no>>
schedVars == <<mainVars, statsVars, taskVars, semVars, envVars, aggVars, ui_events,
               stop_event, failed_log, streamVars, finish_order>>
chainVars == <<c_ext, c_cb, c_outs, c_pc, c_err, c_invoked, c_ret>>
trackVars == <<p_dur, p_stream, p_attempt, p_pos, p_percent, p_samples, p_pc>>
logVars == <<lock, log_file, log_main, log_pc, log_err>>
probeVars == <<d_outs, d_pc, d_calls, d_ret>>
rateVars == <<r_gap, r_now, r_stamps, r_all, r_rate, r_pc>>
pipeVars == <<x_runner, x_out, x_err, x_stdout, x_stderr, x_proc, x_pc>>
sideVars == <<logVars, probeVars, rateVars, pipeVars>>
pureVars == <<chainVars, trackVars, sideVars>>
vars == <<schedVars, chainVars, trackVars, sideVars>>

(***************************************************************************)
(* compressor.py: texts                                                    *)
(* A text (stderr, error_log, str(e)) is a sequence of chunks of           *)
(* characters; " " and "\n" are the whitespace chunks.                     *)
(***************************************************************************)
Whitespace == {" ", "\n"}

RECURSIVE LStrip(_)
LStrip(s) ==
    IF s # << >> /\ Head(s) \in Whitespace THEN LStrip(Tail(s)) ELSE s

RECURSIVE RStrip(_)
RStrip(s) ==
    IF s # << >> /\ s[Len(s)] \in Whitespace
    THEN RStrip(SubSeq(s, 1, Len(s) - 1))
    ELSE s

\* str.strip()
Strip(s) == RStrip(LStrip(s))

\* "\n".join(msgs)
RECURSIVE JoinLines(_)
JoinLines(msgs) ==
    IF msgs = << >> THEN << >>
    ELSE IF Len(msgs) = 1 THEN msgs[1]
    ELSE msgs[1] \o <<"\n">> \o JoinLines(Tail(msgs))

\* [msg for msg in msgs if msg]
NonEmpty(msgs) == SelectSeq(msgs, LAMBDA m : m # << >>)

RECURSIVE TextsUpTo(_)
TextsUpTo(n) ==
    IF n = 0 THEN {<< >>}
    ELSE TextsUpTo(n - 1) \cup
         {Append(t, c) : t \in {u \in TextsUpTo(n - 1) : Len(u) = n - 1}, c \in {"e", " "}}

\* what one invocation of the external tool can do: exit status and stderr
Outcomes == [returncode : {0, 1}, stderr : TextsUpTo(MaxErrLen)]

FfmpegFailed == <<"ffmpeg_failed">>

(***************************************************************************)
(* compressor.py: _run_ffmpeg, _run_ffmpeg_with_progress                   *)
(* Both return (ok, duration, diagnostics); the duration is left out.      *)
(***************************************************************************)
run_ffmpeg(out) == [ok |-> out.returncode = 0, err |-> Strip(out.stderr)]

\* stderr is piped but never read: the third component is always ''
run_ffmpeg_with_progress(out) == [ok |-> out.returncode = 0, err |-> << >>]

RunAttempt(cb, out) ==
    IF cb THEN run_ffmpeg_with_progress(out) ELSE run_ffmpeg(out)

\* the strategy tags of the video chain and of the image chain
VideoTag(k) ==
    CASE k = 1 -> "video-gpu" [] k = 2 -> "video-gpu-swdec" [] k = 3 -> "video-cpu"

ImageTag(k) == CASE k = 1 -> "image-gpu" [] k = 2 -> "image-cpu"

RetOk(tag) == [type |-> tag, error |-> None, error_log |-> << >>]

\* combined_err of the video chain
CombinedErr(errs) == JoinLines(NonEmpty(errs))

RetVideoFailed(errs) ==
    [type |-> "video-failed", error |-> Some(FfmpegFailed),
     error_log |-> CombinedErr(errs)]

\* the image chain returns err2 alone
RetImageFailed(errs) ==
    [type |-> "image-failed", error |-> Some(FfmpegFailed), error_log |-> errs[2]]

RetSkip == [type |-> "skip", error |-> None, error_log |-> << >>]

NoRet == [type |-> "", error |-> None, error_log |-> << >>]

(***************************************************************************)
(* compressor.py: compress_file, one action per invocation of the tool     *)
(***************************************************************************)
ChainExts == {".mp4", ".MOV", ".webm", ".png", ".JPG", ".txt"}

ChainInit ==
    /\ c_ext \in ChainExts
    /\ c_cb \in BOOLEAN
    /\ c_outs \in [1..3 -> Outcomes]
    /\ c_pc = "call"
    /\ c_err = << >>
    /\ c_invoked = << >>
    /\ c_ret = NoRet

ChainIdle ==
    /\ c_ext = ".txt"
    /\ c_cb = FALSE
    /\ c_outs = << >>
    /\ c_pc = "idle"
    /\ c_err = << >>
    /\ c_invoked = << >>
    /\ c_ret = NoRet

\* a chain that goes on to the next attempt after a success
AfterAttemptNoReturn(ok, next) == next

\* position after an attempt that ended with status ok
AfterAttempt(ok, next) == IF ok THEN "ret" ELSE next

\* Try 1..3 of the video chain
ChainVideo(k) ==
    /\ c_pc = (CASE k = 1 -> "call" [] k = 2 -> "try2" [] k = 3 -> "try3")
    /\ Lower(c_ext) \in VIDEO_EXTS
    /\ LET r == RunAttempt(c_cb, c_outs[k])
           errs == Append(c_err, r.err)
           next == AfterAttempt(r.ok, CASE k = 1 -> "try2" [] k = 2 -> "try3" [] k = 3 -> "ret")
       IN  /\ c_invoked' = Append(c_invoked, k)
           /\ c_err' = errs
           /\ c_pc' = next
           /\ c_ret' = IF r.ok THEN RetOk(VideoTag(k))
                       ELSE IF next = "ret" THEN RetVideoFailed(errs)
                       ELSE c_ret
    /\ UNCHANGED <<c_ext, c_cb, c_outs>>
    /\ UNCHANGED <<schedVars, trackVars, sideVars>>

\* the GPU attempt and the CPU fallback of the image chain (never streaming)
ChainImage(k) ==
    /\ c_pc = (CASE k = 1 -> "call" [] k = 2 -> "try2")
    /\ Lower(c_ext) \notin VIDEO_EXTS
    /\ Lower(c_ext) \in IMAGE_EXTS
    /\ LET r == run_ffmpeg(c_outs[k])
           errs == Append(c_err, r.err)
           next == AfterAttempt(r.ok, CASE k = 1 -> "try2" [] k = 2 -> "ret")
       IN  /\ c_invoked' = Append(c_invoked, k)
           /\ c_err' = errs
           /\ c_pc' = next
           /\ c_ret' = IF r.ok THEN RetOk(ImageTag(k))
                       ELSE IF next = "ret" THEN RetImageFailed(errs)
                       ELSE c_ret
    /\ UNCHANGED <<c_ext, c_cb, c_outs>>
    /\ UNCHANGED <<schedVars, trackVars, sideVars>>

\* unsupported type
ChainSkip ==
    /\ c_pc = "call"
    /\ Lower(c_ext) \notin VIDEO_EXTS
    /\ Lower(c_ext) \notin IMAGE_EXTS
    /\ c_pc' = "ret"
    /\ c_ret' = RetSkip
    /\ UNCHANGED <<c_ext, c_cb, c_outs, c_err, c_invoked>>
    /\ UNCHANGED <<schedVars, trackVars, sideVars>>

\* the image chain of compress_file as a function of the tool's outcomes
ImageChain(outs) ==
    LET r1 == run_ffmpeg(outs[1])
        r2 == run_ffmpeg(outs[2])
    IN  IF r1.ok THEN RetOk(ImageTag(1))
        ELSE IF r2.ok THEN RetOk(ImageTag(2))
        ELSE RetImageFailed(<<r1.err, r2.err>>)

ChainNext ==
    \/ \E k \in 1..3 : ChainVideo(k)
    \/ \E k \in 1..2 : ChainImage(k)
    \/ ChainSkip

(***************************************************************************)
(* main.py: file filter                                                    *)
(***************************************************************************)
\* a filter that also lets text files through
AllowedExtsAndText == IMAGE_EXTS \cup VIDEO_EXTS \cup {".txt"}

allowed_exts == IMAGE_EXTS \cup VIDEO_EXTS

\* os.path.splitext(f)[1]
Splitext(l, f) == l[f].ext

\* a filter that lets every directory entry through
IsAllowedAny(l, f) == f \in 1..Len(l)

IsAllowed(l, f) == Lower(Splitext(l, f)) \in allowed_exts

FilesToProcess(l) ==
    SelectSeq([i \in 1..Len(l) |-> i], LAMBDA f : IsAllowed(l, f))

files_to_process == FilesToProcess(listing)

Files == 1..Len(BatchListing)

Jobs == {files_to_process[i] : i \in 1..Len(files_to_process)}

\* ext in compressor.VIDEO_EXTS, with ext the lowered extension
IsVideo(f) == Lower(Splitext(listing, f)) \in VIDEO_EXTS

\* stats.get_file_size of the input file and of the output file
InputSize(f) == listing[f].size
OutputSize(f) == listing[f].out

MaxOf(a, b) == IF a >= b THEN a ELSE b

\* max_workers of the ThreadPoolExecutor
max_workers == MaxOf(VideoCap + ImageCap, CpuCount)

(***************************************************************************)
(* Helpers of main.py                                                      *)
(***************************************************************************)
\* an acquire that also returns at value zero
CanAcquireAtZero(v) == v >= 0

\* threading.Semaphore.acquire() returns only while the value is positive
CanAcquire(v) == v > 0

\* savings that are never negative
SavingsFloored(o, c) == IF o >= c THEN o - c ELSE 0

\* original_size_local - compressed_size
Savings(o, c) == o - c

\* submitted_count += 1
CountSubmitted(n) == n + 1

\* a completion counted twice
CountCompletedTwice(n) == n + 2

\* completed_count += 1
CountCompleted(n) == n + 1

\* a discard that leaves the set as it is
DiscardNothing(S, f) == S

\* active_filenames.discard(filename)
Discard(S, f) == S \ {f}

\* original / compressed, or 0; kept in hundredths, truncated
Ratio(o, c) == IF c > 0 THEN (o * 100) \div c ELSE 0

\* truth value of res.get('error')
Truthy(e) == e # None /\ e[1] # << >>

\* dict.pop(key, None)
Pop(d, f) == [g \in (DOMAIN d) \ {f} |-> d[g]]

\* d[key] = value
Store(d, f, v) == [g \in (DOMAIN d) \cup {f} |-> IF g = f THEN v ELSE d[g]]

\* deque(maxlen=1000).append
TsMaxLen == 1000
DequeAppend(d, x) ==
    IF Len(d) >= TsMaxLen THEN Append(Tail(d), x) ELSE Append(d, x)

\* str(e) of a fault raised inside a task
FaultMsg == <<"fault">>

ProgressEvent(f, pct, spd) ==
    [type |-> "progress", payload |-> [filename |-> f, percent |-> pct, speed |-> spd]]

CompleteEvent(r) == [type |-> "file_complete", payload |-> r]

\* res before any assignment
Unbound ==
    [bound |-> FALSE, filename |-> 0, original_size |-> 0, compressed_size |-> 0,
     ratio |-> 0, savings |-> 0, result |-> None, error |-> None, error_log |-> << >>]

\* res of the try branch
ResOk(f, o, c, r) ==
    [bound |-> TRUE, filename |-> f, original_size |-> o, compressed_size |-> c,
     ratio |-> Ratio(o, c), savings |-> Savings(o, c), result |-> Some(r),
     error |-> r.error, error_log |-> r.error_log]

\* res of the except branch
ResFault(f, o) ==
    [bound |-> TRUE, filename |-> f, original_size |-> o, compressed_size |-> 0,
     ratio |-> 0, savings |-> 0, result |-> None,
     error |-> Some(FaultMsg), error_log |-> FaultMsg]

\* one block of failed.txt
FailBlock(r) == [filename |-> r.filename, error |-> r.error[1], error_log |-> r.error_log]

\* tasks a pool worker is executing
Busy == {f \in Files : tpc[f] \notin {"none", "queued", "done"}}

\* position of f in files_to_process
PosOf(f) == CHOOSE i \in 1..Len(files_to_process) : files_to_process[i] = f

\* the value of the semaphore of f's class
SemOf(f) == IF IsVideo(f) THEN video_sem ELSE image_sem

\* queue.Queue.put; the model holds the producer while MaxQueue events wait
CanPut == Len(ui_events) < MaxQueue

\* the state main() builds before it starts the consumer thread
SchedReset ==
    /\ mpc = "init"
    /\ idx = 1
    /\ all_done = FALSE
    /\ spc = "idle"
    /\ cur_ev = None
    /\ tpc = [f \in Files |-> "none"]
    /\ res = [f \in Files |-> Unbound]
    /\ attempt = [f \in Files |-> 0]
    /\ t_errs = [f \in Files |-> << >>]
    /\ result = [f \in Files |-> NoRet]
    /\ percent = [f \in Files |-> 0]
    /\ line_no = [f \in Files |-> 0]
    /\ finish_order = << >>
    /\ video_sem = VideoCap
    /\ image_sem = ImageCap
    /\ holders = {}
    /\ ui_events = << >>
    /\ stop_event = FALSE
    /\ submitted_count = 0
    /\ completed_count = 0
    /\ active_jobs = 0
    /\ active_filenames = {}
    /\ active_file_sizes = << >>
    /\ progress_by_file = << >>
    /\ total_original_size = 0
    /\ total_compressed_size = 0
    /\ completed_timestamps = << >>
    /\ failed_log = << >>
    /\ future_exc = {}
    /\ records = {}
    /\ ui_results = << >>
    /\ ui_errors = << >>
    /\ n_faults = 0
    /\ n_failed = 0

SchedInit == listing \in Listings /\ SchedReset

(***************************************************************************)
(* compressor.py: _run_ffmpeg_with_progress, the parser of the progress    *)
(* stream.  The parsed value of a line is in microseconds for out_time_ms  *)
(* and out_time_us, the digits HHMMSS for out_time, hundredths for speed,  *)
(* 1 for progress=end.                                                     *)
(* A duration is in whole seconds, a percent in whole percent, truncated.  *)
(***************************************************************************)
Lines ==
    { Line("out_time_ms", TRUE, 5000000), Line("out_time_ms", TRUE, 2000000),
      Line("out_time_ms", FALSE, 0),
      Line("out_time_us", TRUE, 12000000), Line("out_time_us", TRUE, 0 - 1000000),
      Line("out_time", TRUE, 5), Line("out_time", TRUE, 0 - 5),
      Line("out_time", FALSE, 0),
      Line("speed", TRUE, 234), Line("speed", FALSE, 0),
      EndLine, Line("progress", TRUE, 0), Line("frame", TRUE, 10),
      Line("", FALSE, 0) }

RECURSIVE StreamsUpTo(_)
StreamsUpTo(n) ==
    IF n = 0 THEN {<< >>}
    ELSE StreamsUpTo(n - 1) \cup
         {Append(t, l) : t \in {u \in StreamsUpTo(n - 1) : Len(u) = n - 1}, l \in Lines}

\* what the duration probe can hand to the tracker: None, 0.0, 10.0
Durations == {None, Some(0), Some(10)}

MinOf(a, b) == IF a <= b THEN a ELSE b

\* max(0.0, min(100.0, x))
Clamp(x) == MaxOf(0, MinOf(100, x))

\* line 147-148: int(h) * 3600 + int(m) * 60 + float(s), in microseconds.  The
\* value is written HH:MM:SS as the digits HHMMSS; a negative n stands for the
\* same digits behind a leading '-', which split(':') leaves in the hours
\* field only: int("-00") is 0, and the minutes and seconds stay positive.
HmsToUs(n) ==
    LET a == IF n < 0 THEN 0 - n ELSE n
        h == IF n < 0 THEN 0 - (a \div 10000) ELSE a \div 10000
    IN  (h * 3600 + ((a \div 100) % 100) * 60 + (a % 100)) * 1000000

\* a parser that also reads the frame counter as an output position
IsOutTimeOrFrame(line) ==
    line.key \in {"out_time_ms", "out_time_us", "out_time", "frame"}

\* lines 120, 132, 144: the three output-time keys
IsOutTime(line) == line.key \in {"out_time_ms", "out_time_us", "out_time"}

\* out_s of an output-time line, in microseconds: out_time_ms and out_time_us
\* are both divided by 1_000_000
ElapsedUs(line) == IF line.key = "out_time" THEN HmsToUs(line.num) ELSE line.num

\* a percent computed as a fraction of one
PercentFraction(out_us, dur) ==
    IF dur # None /\ dur[1] > 0 THEN Clamp((out_us \div 1000000) \div dur[1]) ELSE 0

\* (out_s / duration_s) * 100.0 clamped, or 0.0 without a positive duration
Percent(out_us, dur) ==
    IF dur # None /\ dur[1] > 0 THEN Clamp((out_us \div 10000) \div dur[1]) ELSE 0

\* one call of progress_cb(percent, speed_x, ...)
Sample(pct, spd) == [percent |-> pct, speed |-> spd]

\* a speed line that reports percent 0
SpeedSampleZero(pct, spd) == Sample(0, spd)

\* line 164: progress_cb(percent, spx, None)
SpeedSample(pct, spd) == Sample(pct, spd)

\* a parser that reports 100 at the terminal marker only when the duration
\* is known
TrackLineKnownOnly(dur, pct, line) ==
    IF IsOutTime(line)
    THEN IF line.ok
         THEN LET p == Percent(ElapsedUs(line), dur)
              IN  [percent |-> p, emit |-> Some(Sample(p, None))]
         ELSE [percent |-> pct, emit |-> None]
    ELSE IF line.key = "speed"
    THEN [percent |-> pct,
          emit |-> Some(SpeedSample(pct, IF line.ok THEN Some(line.num) ELSE None))]
    ELSE IF line.key = "progress" /\ line.ok /\ line.num = 1
    THEN [percent |-> pct,
          emit |-> Some(Sample(IF dur # None /\ dur[1] > 0 THEN 100 ELSE pct, None))]
    ELSE [percent |-> pct, emit |-> None]

\* lines 113-171: the effect of one line on the local percent and the call of
\* progress_cb it makes, if any
TrackLine(dur, pct, line) ==
    IF IsOutTime(line)
    THEN IF line.ok
         THEN LET p == Percent(ElapsedUs(line), dur)
              IN  [percent |-> p, emit |-> Some(Sample(p, None))]
         ELSE [percent |-> pct, emit |-> None]
    ELSE IF line.key = "speed"
    THEN [percent |-> pct,
          emit |-> Some(SpeedSample(pct, IF line.ok THEN Some(line.num) ELSE None))]
    ELSE IF line.key = "progress" /\ line.ok /\ line.num = 1
    THEN [percent |-> pct, emit |-> Some(Sample(100, None))]
    ELSE [percent |-> pct, emit |-> None]

\* the streaming attempts of the video chain (lines 222, 246, 264)
StreamAttempts == 3

TrackInit ==
    /\ p_dur \in Durations
    /\ p_stream \in StreamsUpTo(MaxLines)
    /\ p_attempt = 1
    /\ p_pos = 0
    /\ p_percent = 0
    /\ p_samples = << >>
    /\ p_pc = "start"

TrackIdle ==
    /\ p_dur = None
    /\ p_stream = << >>
    /\ p_attempt = 0
    /\ p_pos = 0
    /\ p_percent = 0
    /\ p_samples = << >>
    /\ p_pc = "idle"

\* a sample as the sink sees it, with the attempt it belongs to
Emitted(a, first, smp) ==
    [attempt |-> a, first |-> first, percent |-> smp.percent, speed |-> smp.speed]

\* an attempt that starts from the percent the previous attempt ended with
TrackBeginKeepPercent ==
    /\ p_pc = "start"
    /\ p_percent' = p_percent
    /\ p_pos' = 0
    /\ p_samples' = Append(p_samples, Emitted(p_attempt, TRUE, Sample(0, None)))
    /\ p_pc' = "read"
    /\ UNCHANGED <<p_dur, p_stream, p_attempt>>
    /\ UNCHANGED <<schedVars, chainVars, sideVars>>

\* lines 101-109: percent = 0.0 and the initial tick
TrackBegin ==
    /\ p_pc = "start"
    /\ p_percent' = 0
    /\ p_pos' = 0
    /\ p_samples' = Append(p_samples, Emitted(p_attempt, TRUE, Sample(0, None)))
    /\ p_pc' = "read"
    /\ UNCHANGED <<p_dur, p_stream, p_attempt>>
    /\ UNCHANGED <<schedVars, chainVars, sideVars>>

\* lines 112-171: one line of proc.stdout
TrackRead ==
    /\ p_pc = "read"
    /\ p_pos < Len(p_stream)
    /\ LET t == TrackLine(p_dur, p_percent, p_stream[p_pos + 1]) IN
        /\ p_percent' = t.percent
        /\ p_samples' = IF t.emit = None THEN p_samples
                        ELSE Append(p_samples, Emitted(p_attempt, FALSE, t.emit[1]))
    /\ p_pos' = p_pos + 1
    /\ UNCHANGED <<p_dur, p_stream, p_attempt, p_pc>>
    /\ UNCHANGED <<schedVars, chainVars, sideVars>>

\* lines 172-185 and compress_file: end of stdout; after a failed attempt the
\* chain starts the next streaming attempt, if one is left
TrackEnd(ok) ==
    /\ p_pc = "read"
    /\ p_pos = Len(p_stream)
    /\ IF ok \/ p_attempt = StreamAttempts
       THEN /\ p_pc' = "done"
            /\ UNCHANGED p_attempt
       ELSE /\ p_pc' = "start"
            /\ p_attempt' = p_attempt + 1
    /\ UNCHANGED <<p_dur, p_stream, p_pos, p_percent, p_samples>>
    /\ UNCHANGED <<schedVars, chainVars, sideVars>>

TrackNext ==
    \/ TrackBegin
    \/ TrackRead
    \/ \E ok \in BOOLEAN : TrackEnd(ok)

(***************************************************************************)
(* main.py: main thread.  A "with lock:" block is one step: the lock makes *)
(* the blocks mutually exclusive and no block waits inside.                *)
(***************************************************************************)
\* a start that has the consumer thread running before it looks at the error
MainStartThreadFirst(nvml_ok) ==
    /\ mpc = "init"
    /\ spc' = "top"
    /\ IF nvml_ok
       THEN /\ mpc' = "submit"
            /\ failed_log' = << >>
       ELSE /\ mpc' = "aborted"
            /\ UNCHANGED failed_log
    /\ UNCHANGED <<listing, idx, all_done, cur_ev, ui_results, ui_errors, taskVars,
                   semVars, envVars, aggVars, ui_events, stop_event>>
    /\ UNCHANGED <<streamVars, finish_order>>
    /\ UNCHANGED pureVars

\* lines 22-26, 55-62, 132-134: init_nvml, failed.txt emptied, consumer started
MainStart(nvml_ok) ==
    /\ mpc = "init"
    /\ IF nvml_ok
       THEN /\ mpc' = "submit"
            /\ spc' = "top"
            /\ failed_log' = << >>
       ELSE /\ mpc' = "aborted"
            /\ UNCHANGED <<spc, failed_log>>
    /\ UNCHANGED <<listing, idx, all_done, cur_ev, ui_results, ui_errors, taskVars,
                   semVars, envVars, aggVars, ui_events, stop_event>>
    /\ UNCHANGED streamVars
    /\ UNCHANGED finish_order
    /\ UNCHANGED pureVars

\* a submission that leaves the last-progress map alone
InitialProgressNone(d, f) == d

\* lines 235-237: a video starts at 0% so that the list does not show --%
InitialProgress(d, f) == IF IsVideo(f) THEN Store(d, f, <<Some(0), None>>) ELSE d

\* lines 222-239: count the submission under the lock, hand the task to the pool
MainSubmit ==
    /\ mpc = "submit"
    /\ idx <= Len(files_to_process)
    /\ LET f == files_to_process[idx] IN
        /\ submitted_count' = CountSubmitted(submitted_count)
        /\ active_file_sizes' = Store(active_file_sizes, f, InputSize(f))
        /\ progress_by_file' = InitialProgress(progress_by_file, f)
        /\ tpc' = [tpc EXCEPT ![f] = "queued"]
    /\ idx' = idx + 1
    /\ UNCHANGED <<listing, mpc, all_done, statsVars, res, attempt, t_errs, result,
                   future_exc, records, semVars, envVars, completed_count,
                   active_jobs, active_filenames, total_original_size,
                   total_compressed_size, completed_timestamps, ui_events,
                   stop_event, failed_log>>
    /\ UNCHANGED streamVars
    /\ UNCHANGED finish_order
    /\ UNCHANGED pureVars

\* lines 243-244: wait(futures) and the executor's shutdown(wait=True)
MainJoinPool ==
    /\ mpc = "submit"
    /\ idx > Len(files_to_process)
    /\ \A f \in Jobs : tpc[f] = "done"
    /\ mpc' = "wait"
    /\ UNCHANGED <<listing, idx, all_done, statsVars, taskVars, semVars, envVars,
                   aggVars, ui_events, stop_event, failed_log>>
    /\ UNCHANGED streamVars
    /\ UNCHANGED finish_order
    /\ UNCHANGED pureVars

\* lines 247-248
MainWaitRead ==
    /\ mpc = "wait"
    /\ all_done' = (completed_count = submitted_count)
    /\ mpc' = "check"
    /\ UNCHANGED <<listing, idx, statsVars, taskVars, semVars, envVars, aggVars,
                   ui_events, stop_event, failed_log>>
    /\ UNCHANGED streamVars
    /\ UNCHANGED finish_order
    /\ UNCHANGED pureVars

\* a wait loop that tests the counters only, not the queue
MainCheckCountOnly ==
    /\ mpc = "check"
    /\ IF all_done
       THEN /\ mpc' = "joining"
            /\ stop_event' = TRUE
       ELSE /\ mpc' = "wait"
            /\ UNCHANGED stop_event
    /\ UNCHANGED <<listing, idx, all_done, statsVars, taskVars, semVars, envVars,
                   aggVars, ui_events, failed_log>>
    /\ UNCHANGED streamVars
    /\ UNCHANGED finish_order
    /\ UNCHANGED pureVars

\* lines 249-262: leave the wait loop and set stop_event, or sleep and retry
MainCheck ==
    /\ mpc = "check"
    /\ IF all_done /\ ui_events = << >>
       THEN /\ mpc' = "joining"
            /\ stop_event' = TRUE
       ELSE /\ mpc' = "wait"
            /\ UNCHANGED stop_event
    /\ UNCHANGED <<listing, idx, all_done, statsVars, taskVars, semVars, envVars,
                   aggVars, ui_events, failed_log>>
    /\ UNCHANGED streamVars
    /\ UNCHANGED finish_order
    /\ UNCHANGED pureVars

\* a main thread that does not wait for the consumer thread to end
MainJoinStatsNoWait ==
    /\ mpc = "joining"
    /\ mpc' = "input"
    /\ UNCHANGED <<listing, idx, all_done, statsVars, taskVars, semVars, envVars,
                   aggVars, ui_events, stop_event, failed_log>>
    /\ UNCHANGED <<streamVars, finish_order>>
    /\ UNCHANGED pureVars

\* line 263: stats_thread.join()
MainJoinStats ==
    /\ mpc = "joining"
    /\ spc = "ended"
    /\ mpc' = "input"
    /\ UNCHANGED <<listing, idx, all_done, statsVars, taskVars, semVars, envVars,
                   aggVars, ui_events, stop_event, failed_log>>
    /\ UNCHANGED streamVars
    /\ UNCHANGED finish_order
    /\ UNCHANGED pureVars

\* lines 266-274: the user types x
MainAck ==
    /\ mpc = "input"
    /\ mpc' = "exit"
    /\ UNCHANGED <<listing, idx, all_done, statsVars, taskVars, semVars, envVars,
                   aggVars, ui_events, stop_event, failed_log>>
    /\ UNCHANGED streamVars
    /\ UNCHANGED finish_order
    /\ UNCHANGED pureVars

(***************************************************************************)
(* main.py: task                                                           *)
(***************************************************************************)
\* outcomes of the external tool inside a batch run
OutOk == [returncode |-> 0, stderr |-> << >>]
OutFail == [returncode |-> 1, stderr |-> <<"e">>]
SchedOutcomes == {OutOk, OutFail}

\* number of invocations of the image chain that exit non-zero
ImageFails(outs) ==
    IF outs[1].returncode = 0 THEN 0
    ELSE IF outs[2].returncode = 0 THEN 1 ELSE 2

\* a pool worker takes the oldest queued work item
PoolStart(f) ==
    /\ tpc[f] = "queued"
    /\ \A g \in Jobs : PosOf(g) < PosOf(f) => tpc[g] # "queued"
    /\ Cardinality(Busy) < max_workers
    /\ tpc' = [tpc EXCEPT ![f] = "mark"]
    /\ UNCHANGED <<mainVars, statsVars, res, attempt, t_errs, result, future_exc,
                   records, semVars, envVars, aggVars, ui_events, stop_event,
                   failed_log>>
    /\ UNCHANGED streamVars
    /\ UNCHANGED finish_order
    /\ UNCHANGED pureVars

\* a task that goes to its limiter without marking itself active
TaskMarkNothing(f) ==
    /\ tpc[f] = "mark"
    /\ tpc' = [tpc EXCEPT ![f] = "acquire"]
    /\ UNCHANGED <<mainVars, statsVars, res, attempt, t_errs, result, future_exc,
                   records, semVars, envVars, aggVars, ui_events, stop_event,
                   failed_log>>
    /\ UNCHANGED <<streamVars, finish_order>>
    /\ UNCHANGED pureVars

\* lines 143-145
TaskMark(f) ==
    /\ tpc[f] = "mark"
    /\ active_jobs' = active_jobs + 1
    /\ active_filenames' = active_filenames \cup {f}
    /\ tpc' = [tpc EXCEPT ![f] = "acquire"]
    /\ UNCHANGED <<mainVars, statsVars, res, attempt, t_errs, result, future_exc,
                   records, semVars, envVars, submitted_count, completed_count,
                   active_file_sizes, progress_by_file, total_original_size,
                   total_compressed_size, completed_timestamps, ui_events,
                   stop_event, failed_log>>
    /\ UNCHANGED streamVars
    /\ UNCHANGED finish_order
    /\ UNCHANGED pureVars

\* lines 147-148: sem.acquire()
TaskAcquire(f) ==
    /\ tpc[f] = "acquire"
    /\ CanAcquire(SemOf(f))
    /\ IF IsVideo(f)
       THEN video_sem' = video_sem - 1 /\ UNCHANGED image_sem
       ELSE image_sem' = image_sem - 1 /\ UNCHANGED video_sem
    /\ holders' = holders \cup {f}
    /\ tpc' = [tpc EXCEPT ![f] = "run"]
    /\ UNCHANGED <<mainVars, statsVars, res, attempt, t_errs, result, future_exc,
                   records, envVars, aggVars, ui_events, stop_event, failed_log>>
    /\ UNCHANGED streamVars
    /\ UNCHANGED finish_order
    /\ UNCHANGED pureVars

\* the duration main.py:153 probes and the lines the tool writes for f
DurOf(f) == listing[f].dur
StdoutOf(f) == listing[f].lines

\* lines 154-160: _cb puts the sample on the queue
SampleEvent(f, smp) == ProgressEvent(f, Some(smp.percent), smp.speed)

\* lines 101-109 of compressor.py through _cb: a streaming attempt starts with
\* percent = 0.0 and puts its initial sample on the queue
VideoBegin(f) ==
    /\ tpc[f] = "run"
    /\ IsVideo(f)
    /\ CanPut
    /\ ui_events' = Append(ui_events, SampleEvent(f, Sample(0, None)))
    /\ percent' = [percent EXCEPT ![f] = 0]
    /\ line_no' = [line_no EXCEPT ![f] = 0]
    /\ tpc' = [tpc EXCEPT ![f] = "stream"]
    /\ UNCHANGED <<mainVars, statsVars, res, attempt, t_errs, result, future_exc,
                   records, semVars, envVars, aggVars, stop_event, failed_log>>
    /\ UNCHANGED finish_order
    /\ UNCHANGED pureVars

\* lines 112-164 of compressor.py: the attempt reads the next line of stdout
\* and, for a recognized line, puts a sample on the queue
VideoLine(f) ==
    /\ tpc[f] = "stream"
    /\ line_no[f] < Len(StdoutOf(f))
    /\ LET t == TrackLine(DurOf(f), percent[f], StdoutOf(f)[line_no[f] + 1]) IN
        /\ percent' = [percent EXCEPT ![f] = t.percent]
        /\ IF t.emit = None
           THEN UNCHANGED ui_events
           ELSE /\ CanPut
                /\ ui_events' = Append(ui_events, SampleEvent(f, t.emit[1]))
    /\ line_no' = [line_no EXCEPT ![f] = line_no[f] + 1]
    /\ UNCHANGED <<mainVars, statsVars, taskVars, semVars, envVars, aggVars,
                   stop_event, failed_log>>
    /\ UNCHANGED finish_order
    /\ UNCHANGED pureVars

\* the streaming attempt ends.  With status 0 the tool has written all its
\* lines and then the terminal marker, and compress_file returns; a failing
\* tool stops after any of its lines, and the next attempt follows, or
\* video-failed
VideoEnd(f, out) ==
    /\ tpc[f] = "stream"
    /\ LET r == run_ffmpeg_with_progress(out)
           k == attempt[f] + 1
           es == Append(t_errs[f], r.err)
           t == TrackLine(DurOf(f), percent[f], EndLine)
       IN  IF r.ok
           THEN /\ line_no[f] = Len(StdoutOf(f))
                /\ CanPut
                /\ ui_events' = Append(ui_events, SampleEvent(f, t.emit[1]))
                /\ result' = [result EXCEPT ![f] = RetOk(VideoTag(k))]
                /\ tpc' = [tpc EXCEPT ![f] = "totals"]
                /\ UNCHANGED <<attempt, t_errs, n_failed>>
           ELSE /\ n_failed < MaxFailed
                /\ n_failed' = n_failed + 1
                /\ t_errs' = [t_errs EXCEPT ![f] = es]
                /\ UNCHANGED ui_events
                /\ IF k = 3
                   THEN /\ result' = [result EXCEPT ![f] = RetVideoFailed(es)]
                        /\ tpc' = [tpc EXCEPT ![f] = "totals"]
                        /\ UNCHANGED attempt
                   ELSE /\ attempt' = [attempt EXCEPT ![f] = k]
                        /\ tpc' = [tpc EXCEPT ![f] = "run"]
                        /\ UNCHANGED result
    /\ percent' = [percent EXCEPT ![f] = 0]
    /\ line_no' = [line_no EXCEPT ![f] = 0]
    /\ UNCHANGED <<mainVars, statsVars, res, future_exc, records, semVars, n_faults,
                   aggVars, stop_event, failed_log>>
    /\ UNCHANGED finish_order
    /\ UNCHANGED pureVars

\* line 165: compress_file on an image
ImageRun(f, outs) ==
    /\ tpc[f] = "run"
    /\ ~IsVideo(f)
    /\ n_failed + ImageFails(outs) <= MaxFailed
    /\ n_failed' = n_failed + ImageFails(outs)
    /\ result' = [result EXCEPT ![f] = ImageChain(outs)]
    /\ tpc' = [tpc EXCEPT ![f] = "totals"]
    /\ UNCHANGED <<mainVars, statsVars, res, attempt, t_errs, future_exc, records,
                   semVars, n_faults, aggVars, ui_events, stop_event, failed_log>>
    /\ UNCHANGED streamVars
    /\ UNCHANGED finish_order
    /\ UNCHANGED pureVars

\* an exception raised between lines 151 and 169
TaskFault(f) ==
    /\ tpc[f] \in {"run", "stream", "totals"}
    /\ n_faults < MaxFaults
    /\ n_faults' = n_faults + 1
    /\ tpc' = [tpc EXCEPT ![f] = "except"]
    /\ percent' = [percent EXCEPT ![f] = 0]
    /\ line_no' = [line_no EXCEPT ![f] = 0]
    /\ UNCHANGED <<mainVars, statsVars, res, attempt, t_errs, result, future_exc,
                   records, semVars, n_failed, aggVars, ui_events, stop_event,
                   failed_log>>
    /\ UNCHANGED finish_order
    /\ UNCHANGED pureVars

\* lines 166-183: the sizes, the totals under the lock, res
TaskTotals(f) ==
    /\ tpc[f] = "totals"
    /\ LET o == InputSize(f)
           c == OutputSize(f)
           r == ResOk(f, o, c, result[f])
       IN  /\ total_original_size' = total_original_size + o
           /\ total_compressed_size' = total_compressed_size + c
           /\ res' = [res EXCEPT ![f] = r]
           /\ records' = records \cup {r}
    /\ tpc' = [tpc EXCEPT ![f] = "finally"]
    /\ UNCHANGED <<mainVars, statsVars, attempt, t_errs, result, future_exc, semVars,
                   envVars, submitted_count, completed_count, active_jobs,
                   active_filenames, active_file_sizes, progress_by_file,
                   completed_timestamps, ui_events, stop_event, failed_log>>
    /\ UNCHANGED streamVars
    /\ UNCHANGED finish_order
    /\ UNCHANGED pureVars

\* lines 184-195; the size query of line 185 can raise in its turn
TaskExcept(f, size_ok) ==
    /\ tpc[f] = "except"
    /\ IF size_ok
       THEN LET r == ResFault(f, InputSize(f)) IN
            /\ res' = [res EXCEPT ![f] = r]
            /\ records' = records \cup {r}
       ELSE UNCHANGED <<res, records>>
    /\ tpc' = [tpc EXCEPT ![f] = "finally"]
    /\ UNCHANGED <<mainVars, statsVars, attempt, t_errs, result, future_exc, semVars,
                   envVars, aggVars, ui_events, stop_event, failed_log>>
    /\ UNCHANGED streamVars
    /\ UNCHANGED finish_order
    /\ UNCHANGED pureVars

\* lines 198-211; res.get raises when res was never bound, and the exception
\* leaves the finally clause, the with statement releasing the lock; an
\* exception of the append to failed.txt is swallowed (lines 210-211)
TaskFinally(f, write_ok) ==
    /\ tpc[f] = "finally"
    /\ completed_count' = CountCompleted(completed_count)
    /\ completed_timestamps' = DequeAppend(completed_timestamps, completed_count + 1)
    /\ active_jobs' = active_jobs - 1
    /\ active_filenames' = Discard(active_filenames, f)
    /\ active_file_sizes' = Pop(active_file_sizes, f)
    /\ progress_by_file' = Pop(progress_by_file, f)
    /\ IF res[f].bound
       THEN /\ IF Truthy(res[f].error)
               THEN IF write_ok
                    THEN /\ failed_log' = Append(failed_log, FailBlock(res[f]))
                         /\ UNCHANGED n_faults
                    ELSE /\ n_faults < MaxFaults
                         /\ n_faults' = n_faults + 1
                         /\ UNCHANGED failed_log
               ELSE /\ write_ok
                    /\ UNCHANGED <<failed_log, n_faults>>
            /\ finish_order' = Append(finish_order, f)
            /\ tpc' = [tpc EXCEPT ![f] = "release"]
            /\ UNCHANGED <<future_exc, attempt, t_errs, result>>
       ELSE /\ write_ok
            /\ tpc' = [tpc EXCEPT ![f] = "done"]
            /\ future_exc' = future_exc \cup {f}
            /\ attempt' = [attempt EXCEPT ![f] = 0]
            /\ t_errs' = [t_errs EXCEPT ![f] = << >>]
            /\ result' = [result EXCEPT ![f] = NoRet]
            /\ UNCHANGED <<failed_log, n_faults, finish_order>>
    /\ UNCHANGED <<mainVars, statsVars, res, records, semVars, n_failed,
                   submitted_count, total_original_size, total_compressed_size,
                   ui_events, stop_event>>
    /\ UNCHANGED streamVars
    /\ UNCHANGED pureVars

\* lines 213-216: sem.release()
TaskRelease(f) ==
    /\ tpc[f] = "release"
    /\ IF IsVideo(f)
       THEN video_sem' = video_sem + 1 /\ UNCHANGED image_sem
       ELSE image_sem' = image_sem + 1 /\ UNCHANGED video_sem
    /\ holders' = holders \ {f}
    /\ tpc' = [tpc EXCEPT ![f] = "emit"]
    /\ UNCHANGED <<mainVars, statsVars, res, attempt, t_errs, result, future_exc,
                   records, envVars, aggVars, ui_events, stop_event, failed_log>>
    /\ UNCHANGED streamVars
    /\ UNCHANGED finish_order
    /\ UNCHANGED pureVars

\* lines 218-219: the completion event, then the task returns and its locals die
TaskEmit(f) ==
    /\ tpc[f] = "emit"
    /\ CanPut
    /\ ui_events' = Append(ui_events, CompleteEvent(res[f]))
    /\ tpc' = [tpc EXCEPT ![f] = "done"]
    /\ res' = [res EXCEPT ![f] = Unbound]
    /\ attempt' = [attempt EXCEPT ![f] = 0]
    /\ t_errs' = [t_errs EXCEPT ![f] = << >>]
    /\ result' = [result EXCEPT ![f] = NoRet]
    /\ UNCHANGED <<mainVars, statsVars, future_exc, records, semVars, envVars,
                   aggVars, stop_event, failed_log>>
    /\ UNCHANGED streamVars
    /\ UNCHANGED finish_order
    /\ UNCHANGED pureVars

(***************************************************************************)
(* main.py: update_stats, the consumer thread                              *)
(***************************************************************************)
\* queued of line 114
Queued == MaxOf(submitted_count - completed_count - active_jobs, 0)

\* a consumer that counts the completion when it applies the event
ApplyCompleteCounting(payload) ==
    /\ ui_results' = Append(ui_results, payload.filename)
    /\ ui_errors' = IF Truthy(payload.error)
                    THEN Append(ui_errors, payload.filename)
                    ELSE ui_errors
    /\ completed_count' = completed_count + 1
    /\ UNCHANGED <<submitted_count, active_jobs, active_filenames, active_file_sizes,
                   progress_by_file, total_original_size, total_compressed_size,
                   completed_timestamps>>

\* lines 75-89: a file_complete event goes to the results table and, with an
\* error, to the errors panel; the totals are only read
ApplyComplete(payload) ==
    /\ ui_results' = Append(ui_results, payload.filename)
    /\ ui_errors' = IF Truthy(payload.error)
                    THEN Append(ui_errors, payload.filename)
                    ELSE ui_errors
    /\ UNCHANGED aggVars

\* line 67: the loop test, then the telemetry snapshot
StatsTop ==
    /\ spc = "top"
    /\ spc' = IF stop_event THEN "ended" ELSE "drain"
    /\ UNCHANGED <<mainVars, cur_ev, ui_results, ui_errors, taskVars, semVars,
                   envVars, aggVars, ui_events, stop_event, failed_log>>
    /\ UNCHANGED streamVars
    /\ UNCHANGED finish_order
    /\ UNCHANGED pureVars

\* a queue that hands out its newest entry first
DequeueLast(q) == [ev |-> q[Len(q)], rest |-> SubSeq(q, 1, Len(q) - 1)]

\* queue.Queue.get_nowait on a queue that is not empty: first in, first out
Dequeue(q) == [ev |-> Head(q), rest |-> Tail(q)]

\* the sequence s without its first occurrence of x
RECURSIVE Remove(_, _)
Remove(sq, x) ==
    IF sq = << >> THEN << >>
    ELSE IF Head(sq) = x THEN Tail(sq)
    ELSE <<Head(sq)>> \o Remove(Tail(sq), x)

\* lines 71-102: get_nowait; a completion is applied at once, a progress
\* event waits for the lock; queue.Empty ends the drain
StatsGet ==
    /\ spc = "drain"
    /\ IF ui_events = << >>
       THEN /\ spc' = "view"
            /\ UNCHANGED <<cur_ev, ui_results, ui_errors, ui_events, aggVars,
                           finish_order>>
       ELSE LET d == Dequeue(ui_events) IN
            /\ ui_events' = d.rest
            /\ IF d.ev.type = "file_complete"
               THEN /\ ApplyComplete(d.ev.payload)
                    /\ finish_order' = Remove(finish_order, d.ev.payload.filename)
                    /\ UNCHANGED <<spc, cur_ev>>
               ELSE /\ cur_ev' = Some(d.ev)
                    /\ spc' = "progress"
                    /\ UNCHANGED <<ui_results, ui_errors, aggVars, finish_order>>
    /\ UNCHANGED <<mainVars, taskVars, semVars, envVars, stop_event, failed_log>>
    /\ UNCHANGED streamVars
    /\ UNCHANGED pureVars

\* lines 96-100
StatsProgress ==
    /\ spc = "progress"
    /\ LET p == cur_ev[1].payload IN
       progress_by_file' = Store(progress_by_file, p.filename, <<p.percent, p.speed>>)
    /\ cur_ev' = None
    /\ spc' = "drain"
    /\ UNCHANGED <<mainVars, ui_results, ui_errors, taskVars, semVars, envVars,
                   submitted_count, completed_count, active_jobs, active_filenames,
                   active_file_sizes, total_original_size, total_compressed_size,
                   completed_timestamps, ui_events, stop_event, failed_log>>
    /\ UNCHANGED streamVars
    /\ UNCHANGED finish_order
    /\ UNCHANGED pureVars

\* lines 104-128: the derived view is computed under the lock and pushed,
\* then the tick sleeps
StatsView ==
    /\ spc = "view"
    /\ spc' = "top"
    /\ UNCHANGED <<mainVars, cur_ev, ui_results, ui_errors, taskVars, semVars,
                   envVars, aggVars, ui_events, stop_event, failed_log>>
    /\ UNCHANGED streamVars
    /\ UNCHANGED finish_order
    /\ UNCHANGED pureVars

(***************************************************************************)
(* main.py: the failure sink.  failed.txt is written by main at start      *)
(* (lines 55-62) and by the finally block of each task (lines 196-211),    *)
(* here with the lock as a variable and each append in its steps: open,    *)
(* the two pieces in which a block reaches the file (its summary line,     *)
(* then its diagnostic text and separator), close.  A piece is the pair of *)
(* the task and the piece number; task 0 is a task of an earlier run.      *)
(***************************************************************************)
Writers == 1..LogWorkers

\* the block an earlier run left in failed.txt
OldBlock == <<<<0, 1>>, <<0, 2>>>>

LogInit ==
    /\ lock = 0
    /\ log_file \in {<< >>, OldBlock}
    /\ log_main = "init"
    /\ log_pc = [w \in Writers |-> "try"]
    /\ log_err \in [Writers -> BOOLEAN]

LogIdle ==
    /\ lock = 0
    /\ log_file = << >>
    /\ log_main = "idle"
    /\ log_pc = [w \in Writers |-> "idle"]
    /\ log_err = [w \in Writers |-> FALSE]

\* lines 22-26 and 55-62: a failed init_nvml returns before the file is
\* touched; open(path, 'w') empties the file, and when it raises the error is
\* printed and the run goes on with the file as it was
LogStart(nvml_ok, open_ok) ==
    /\ log_main = "init"
    /\ IF ~nvml_ok
       THEN /\ log_main' = "aborted"
            /\ UNCHANGED log_file
       ELSE /\ log_main' = "pool"
            /\ log_file' = IF open_ok THEN << >> ELSE log_file
    /\ UNCHANGED <<lock, log_pc, log_err>>
    /\ UNCHANGED <<schedVars, chainVars, trackVars, probeVars, rateVars, pipeVars>>

\* a finally block that does not wait for the lock
LogEnterNoLock(w) ==
    /\ log_main = "pool"
    /\ log_pc[w] = "try"
    /\ lock' = w
    /\ log_pc' = [log_pc EXCEPT ![w] = IF log_err[w] THEN "open" ELSE "exit"]
    /\ UNCHANGED <<log_file, log_main, log_err>>
    /\ UNCHANGED <<schedVars, chainVars, trackVars, probeVars, rateVars, pipeVars>>

\* lines 198-206: the task takes the lock, does its bookkeeping and tests
\* res.get('error'); tasks exist only after the pool was created (line 221)
LogEnter(w) ==
    /\ log_main = "pool"
    /\ log_pc[w] = "try"
    /\ lock = 0
    /\ lock' = w
    /\ log_pc' = [log_pc EXCEPT ![w] = IF log_err[w] THEN "open" ELSE "exit"]
    /\ UNCHANGED <<log_file, log_main, log_err>>
    /\ UNCHANGED <<schedVars, chainVars, trackVars, probeVars, rateVars, pipeVars>>

\* line 208: open(failed_log_path, 'a'); an exception goes to line 210
LogOpen(w, ok) ==
    /\ log_pc[w] = "open"
    /\ log_pc' = [log_pc EXCEPT ![w] = IF ok THEN "write" ELSE "exit"]
    /\ UNCHANGED <<lock, log_file, log_main, log_err>>
    /\ UNCHANGED <<schedVars, chainVars, trackVars, probeVars, rateVars, pipeVars>>

\* line 209 and the close of the file: the next piece of the block reaches
\* the file, or the write raises and the rest of the block is lost
LogWrite(w, ok) ==
    /\ log_pc[w] \in {"write", "rest"}
    /\ IF ok
       THEN /\ log_file' = Append(log_file, <<w, IF log_pc[w] = "write" THEN 1 ELSE 2>>)
            /\ log_pc' = [log_pc EXCEPT ![w] = IF log_pc[w] = "write" THEN "rest" ELSE "exit"]
       ELSE /\ log_pc' = [log_pc EXCEPT ![w] = "exit"]
            /\ UNCHANGED log_file
    /\ UNCHANGED <<lock, log_main, log_err>>
    /\ UNCHANGED <<schedVars, chainVars, trackVars, probeVars, rateVars, pipeVars>>

\* end of the with-lock block of line 198
LogExit(w) ==
    /\ log_pc[w] = "exit"
    /\ lock' = 0
    /\ log_pc' = [log_pc EXCEPT ![w] = "done"]
    /\ UNCHANGED <<log_file, log_main, log_err>>
    /\ UNCHANGED <<schedVars, chainVars, trackVars, probeVars, rateVars, pipeVars>>

LogNext ==
    \/ \E nvml_ok, open_ok \in BOOLEAN : LogStart(nvml_ok, open_ok)
    \/ \E w \in Writers :
          \/ LogEnter(w)
          \/ \E ok \in BOOLEAN : LogOpen(w, ok)
          \/ \E ok \in BOOLEAN : LogWrite(w, ok)
          \/ LogExit(w)

(***************************************************************************)
(* compressor.py: get_media_duration_seconds and _parse_fps.  The text a   *)
(* ffprobe call prints, stripped, is "" (empty), a text that is no number  *)
(* (N/A), a number, or a fraction num/den; a call can also raise.  The     *)
(* fourth call prints lines.  A duration returned is in milliseconds.      *)
(***************************************************************************)
Raised == [kind |-> "raise", num |-> 0, den |-> 0]
Empty == [kind |-> "empty", num |-> 0, den |-> 0]
NotANumber == [kind |-> "text", num |-> 0, den |-> 0]
Num(n) == [kind |-> "num", num |-> n, den |-> 1]
Frac(n, d) == [kind |-> "frac", num |-> n, den |-> d]
PrintedLines(ls) == [kind |-> "lines", lines |-> ls]

\* what the five calls can give
FormatOuts == {Raised, Empty, NotANumber, Num(0), Num(0 - 3), Num(10)}
StreamOuts == {Raised, Empty, NotANumber, Num(0), Num(0 - 3), Num(20)}
FrameOuts == {Raised, Empty, NotANumber, Num(0), Num(240)}
RateOuts == {Raised, Empty, NotANumber, Frac(24, 0), Frac(0, 1), Frac(24, 1),
             Frac(0 - 24, 1), Num(25)}
CountOuts == {Raised, PrintedLines(<< >>), PrintedLines(<<Num(480)>>),
              PrintedLines(<<Num(480), Frac(24, 1)>>),
              PrintedLines(<<NotANumber, Frac(24, 1)>>),
              PrintedLines(<<Num(480), Frac(24, 0)>>),
              PrintedLines(<<Num(0), Frac(24, 1)>>),
              PrintedLines(<<Frac(24, 1), Num(480)>>)}

ProbeCalls == {"format", "stream", "nb_frames", "avg_frame_rate", "count_frames"}

\* float(s): the number, or None for the ValueError
Float(t) == IF t.kind = "num" THEN Some(t.num) ELSE None

\* lines 16-27: the rate as the pair num, den; None for a zero denominator
\* and for every exception
ParseFps(t) ==
    IF t.kind = "frac"
    THEN IF t.den # 0 THEN Some(<<t.num, t.den>>) ELSE None
    ELSE IF t.kind = "num" THEN Some(<<t.num, 1>>)
    ELSE None

\* a test that lets a zero through
IsPositiveOrZero(v) == v >= 0

\* lines 51, 63: val > 0
IsPositive(v) == v > 0

\* lines 49-52 and 61-64: if out: val = float(out); if val > 0: return val
DurationOf(t) ==
    IF t.kind \in {"raise", "empty"} \/ Float(t) = None THEN None
    ELSE IF IsPositive(Float(t)[1]) THEN Some(Float(t)[1] * 1000)
    ELSE None

\* lines 80-81 and 93-94: if r and r > 0 and n > 0: return n / r
FramesOverRate(n, r) ==
    IF r # None /\ r[1][1] * r[1][2] > 0 /\ n > 0
    THEN Some((n * r[1][2] * 1000) \div r[1][1])
    ELSE None

\* lines 77-81: the third strategy on the two texts it read
FromFrames(frames, rate) ==
    IF frames.kind = "empty" \/ frames = NotANumber \/ rate.kind = "empty" THEN None
    ELSE IF Float(frames) = None THEN None
    ELSE FramesOverRate(Float(frames)[1], ParseFps(rate))

\* lines 90-94: the fourth strategy on the lines it read
FromCount(out) ==
    IF out.kind = "raise" \/ Len(out.lines) < 2 THEN None
    ELSE IF Float(out.lines[1]) = None THEN None
    ELSE FramesOverRate(Float(out.lines[1])[1], ParseFps(out.lines[2]))

ProbeInit ==
    /\ d_outs \in [format : FormatOuts, stream : StreamOuts, nb_frames : FrameOuts,
                   avg_frame_rate : RateOuts, count_frames : CountOuts]
    /\ d_pc = "format"
    /\ d_calls = << >>
    /\ d_ret = None

ProbeIdle ==
    /\ d_outs = [format |-> Raised, stream |-> Raised, nb_frames |-> Raised,
                 avg_frame_rate |-> Raised, count_frames |-> Raised]
    /\ d_pc = "idle"
    /\ d_calls = << >>
    /\ d_ret = None

\* one strategy ends: return the value it found, or go to the next strategy
ProbeStep(calls, val, next) ==
    /\ d_calls' = d_calls \o calls
    /\ IF val # None
       THEN d_pc' = "returned" /\ d_ret' = val
       ELSE d_pc' = next /\ d_ret' = None
    /\ UNCHANGED d_outs
    /\ UNCHANGED <<schedVars, chainVars, trackVars, logVars, rateVars, pipeVars>>

\* lines 43-54: container duration
ProbeFormat ==
    /\ d_pc = "format"
    /\ ProbeStep(<<"format">>, DurationOf(d_outs.format), "stream")

\* lines 55-66: duration of the first video stream
ProbeStream ==
    /\ d_pc = "stream"
    /\ ProbeStep(<<"stream">>, DurationOf(d_outs.stream), "frames")

\* lines 67-83: nb_frames / avg_frame_rate; the second call is not made when
\* the first one raises
ProbeFrames ==
    /\ d_pc = "frames"
    /\ IF d_outs.nb_frames.kind = "raise"
       THEN ProbeStep(<<"nb_frames">>, None, "count")
       ELSE IF d_outs.avg_frame_rate.kind = "raise"
       THEN ProbeStep(<<"nb_frames", "avg_frame_rate">>, None, "count")
       ELSE ProbeStep(<<"nb_frames", "avg_frame_rate">>,
                      FromFrames(d_outs.nb_frames, d_outs.avg_frame_rate), "count")

\* lines 84-97: counted frames / avg_frame_rate, then return None
ProbeCount ==
    /\ d_pc = "count"
    /\ ProbeStep(<<"count_frames">>, FromCount(d_outs.count_frames), "returned")

ProbeNext == ProbeFormat \/ ProbeStream \/ ProbeFrames \/ ProbeCount

(***************************************************************************)
(* main.py: the rolling throughput.  Every task appends time.time() to     *)
(* completed_timestamps in its finally block (lines 198-200); a tick of    *)
(* update_stats counts the entries of the last 30 seconds (104-113) and    *)
(* sleeps (128).  Completions come r_gap seconds apart.                    *)
(***************************************************************************)
\* line 108: window = 30.0
Window == 30

\* seconds from one completion to the next: a burst, a steady flow, a
\* trickle slower than the window
Gaps == {0, 1, 31}

\* what a tick can take from its sleep(1) to the next tick
Sleeps == {1, 30}

\* a count that leaves out the completions exactly 30 seconds old
CountWindowStrict(stamps, now) ==
    Cardinality({i \in 1..Len(stamps) : now - stamps[i] < Window})

\* line 110: sum(1 for t in completed_timestamps if now - t <= window)
CountWindow(stamps, now) ==
    Cardinality({i \in 1..Len(stamps) : now - stamps[i] <= Window})

RateInit ==
    /\ r_gap \in Gaps
    /\ r_now = 0
    /\ r_stamps = << >>
    /\ r_all = << >>
    /\ r_rate = None
    /\ r_pc = "run"

RateIdle ==
    /\ r_gap = 0
    /\ r_now = 0
    /\ r_stamps = << >>
    /\ r_all = << >>
    /\ r_rate = None
    /\ r_pc = "idle"

\* lines 198-200: a task completes; the next one completes r_gap seconds later
RateComplete ==
    /\ r_pc = "run"
    /\ Len(r_all) < MaxCompletions
    /\ r_stamps' = DequeAppend(r_stamps, r_now)
    /\ r_all' = Append(r_all, r_now)
    /\ r_now' = r_now + r_gap
    /\ UNCHANGED <<r_gap, r_rate, r_pc>>
    /\ UNCHANGED <<schedVars, chainVars, trackVars, logVars, probeVars, pipeVars>>

\* lines 104-113: the count of the window under the lock (rate is the count
\* divided by 30.0, and 0.0 for an empty buffer)
RateTick ==
    /\ r_pc \in {"run", "slept"}
    /\ r_rate' = Some(CountWindow(r_stamps, r_now))
    /\ r_pc' = IF r_pc = "run" THEN "shown" ELSE "end"
    /\ UNCHANGED <<r_gap, r_now, r_stamps, r_all>>
    /\ UNCHANGED <<schedVars, chainVars, trackVars, logVars, probeVars, pipeVars>>

\* lines 126-128: the view is pushed and the tick sleeps
RateSleep(dt) ==
    /\ r_pc = "shown"
    /\ r_now' = r_now + dt
    /\ r_rate' = None
    /\ r_pc' = "slept"
    /\ UNCHANGED <<r_gap, r_stamps, r_all>>
    /\ UNCHANGED <<schedVars, chainVars, trackVars, logVars, probeVars, pipeVars>>

RateNext ==
    \/ RateComplete
    \/ RateTick
    \/ \E dt \in Sleeps : RateSleep(dt)

(***************************************************************************)
(* The pipes of an external process.  compressor.py:102 and                *)
(* compress_media.py:97 start the tool with stdout and stderr both piped.  *)
(* A pipe holds at most PipeCap units; a write to a full pipe blocks the   *)
(* tool until the orchestrator reads.  The tool has x_out units left to    *)
(* write on stdout and x_err on stderr, in any order, and exits when both  *)
(* are written.                                                            *)
(***************************************************************************)
Runners == {"stream", "poll"}

PipeInit ==
    /\ x_runner \in Runners
    /\ x_out \in 0..MaxWrites
    /\ x_err \in 0..MaxWrites
    /\ x_stdout = 0
    /\ x_stderr = 0
    /\ x_proc = "running"
    /\ x_pc = "loop"

PipeIdle ==
    /\ x_runner = "stream"
    /\ x_out = 0
    /\ x_err = 0
    /\ x_stdout = 0
    /\ x_stderr = 0
    /\ x_proc = "none"
    /\ x_pc = "idle"

\* the tool writes one unit to stdout
ProcWriteOut ==
    /\ x_proc = "running"
    /\ x_out > 0
    /\ x_stdout < PipeCap
    /\ x_out' = x_out - 1
    /\ x_stdout' = x_stdout + 1
    /\ UNCHANGED <<x_runner, x_err, x_stderr, x_proc, x_pc>>
    /\ UNCHANGED <<schedVars, chainVars, trackVars, logVars, probeVars, rateVars>>

\* the tool writes one unit to stderr
ProcWriteErr ==
    /\ x_proc = "running"
    /\ x_err > 0
    /\ x_stderr < PipeCap
    /\ x_err' = x_err - 1
    /\ x_stderr' = x_stderr + 1
    /\ UNCHANGED <<x_runner, x_out, x_stdout, x_proc, x_pc>>
    /\ UNCHANGED <<schedVars, chainVars, trackVars, logVars, probeVars, rateVars>>

\* the tool has written all its output: it exits, which closes its ends
ProcExit ==
    /\ x_proc = "running"
    /\ x_out = 0
    /\ x_err = 0
    /\ x_proc' = "exited"
    /\ UNCHANGED <<x_runner, x_out, x_err, x_stdout, x_stderr, x_pc>>
    /\ UNCHANGED <<schedVars, chainVars, trackVars, logVars, probeVars, rateVars>>

\* compressor.py:112: the loop over proc.stdout takes one line
StreamReadLine ==
    /\ x_runner = "stream"
    /\ x_pc = "loop"
    /\ x_stdout > 0
    /\ x_stdout' = x_stdout - 1
    /\ UNCHANGED <<x_runner, x_out, x_err, x_stderr, x_proc, x_pc>>
    /\ UNCHANGED <<schedVars, chainVars, trackVars, logVars, probeVars, rateVars>>

\* compressor.py:112: the loop over proc.stdout ends at end of file, which is
\* when the pipe is empty and the tool has closed it
StreamEof ==
    /\ x_runner = "stream"
    /\ x_pc = "loop"
    /\ x_stdout = 0
    /\ x_proc = "exited"
    /\ x_pc' = "wait"
    /\ UNCHANGED <<x_runner, x_out, x_err, x_stdout, x_stderr, x_proc>>
    /\ UNCHANGED <<schedVars, chainVars, trackVars, logVars, probeVars, rateVars>>

\* compressor.py:172-181: proc.wait() returns, then both pipes are closed;
\* what is in the stderr pipe is thrown away
StreamWait ==
    /\ x_runner = "stream"
    /\ x_pc = "wait"
    /\ x_proc = "exited"
    /\ x_pc' = "done"
    /\ x_stderr' = 0
    /\ UNCHANGED <<x_runner, x_out, x_err, x_stdout, x_proc>>
    /\ UNCHANGED <<schedVars, chainVars, trackVars, logVars, probeVars, rateVars>>

\* compress_media.py:101-121: the loop while process.poll() is None redraws
\* the statistics and sleeps, reading neither pipe (a round of the loop
\* changes nothing here); it ends when the tool has exited
PollExit ==
    /\ x_runner = "poll"
    /\ x_pc = "loop"
    /\ x_proc = "exited"
    /\ x_pc' = "done"
    /\ UNCHANGED <<x_runner, x_out, x_err, x_stdout, x_stderr, x_proc>>
    /\ UNCHANGED <<schedVars, chainVars, trackVars, logVars, probeVars, rateVars>>

PipeNext ==
    \/ ProcWriteOut
    \/ ProcWriteErr
    \/ ProcExit
    \/ StreamReadLine
    \/ StreamEof
    \/ StreamWait
    \/ PollExit

\* the failure sink, the prober, the throughput and the pipes are not running
SideIdle == LogIdle /\ ProbeIdle /\ RateIdle /\ PipeIdle

(***************************************************************************)
(* The batch run                                                           *)
(***************************************************************************)
MainNext ==
    \/ \E ok \in BOOLEAN : MainStart(ok)
    \/ MainSubmit
    \/ MainJoinPool
    \/ MainWaitRead
    \/ MainCheck
    \/ MainJoinStats
    \/ MainAck

TaskNext(f) ==
    \/ PoolStart(f)
    \/ TaskMark(f)
    \/ TaskAcquire(f)
    \/ VideoBegin(f)
    \/ VideoLine(f)
    \/ \E out \in SchedOutcomes : VideoEnd(f, out)
    \/ \E outs \in [1..2 -> SchedOutcomes] : ImageRun(f, outs)
    \/ TaskFault(f)
    \/ TaskTotals(f)
    \/ \E ok \in BOOLEAN : TaskExcept(f, ok)
    \/ \E ok \in BOOLEAN : TaskFinally(f, ok)
    \/ TaskRelease(f)
    \/ TaskEmit(f)

StatsNext ==
    \/ StatsTop
    \/ StatsGet
    \/ StatsProgress
    \/ StatsView

SchedNext ==
    \/ MainNext
    \/ \E f \in Files : TaskNext(f)
    \/ StatsNext

Init == SchedInit /\ ChainIdle /\ TrackIdle /\ SideIdle

Next == SchedNext

Spec == Init /\ [][Next]_vars

\* The batch run under fair scheduling: main, the consumer thread and every
\* task of the pool go on whenever they can
FairSpec ==
    /\ Init /\ [][Next]_vars
    /\ WF_vars(MainNext)
    /\ WF_vars(StatsNext)
    /\ \A f \in Files : WF_vars(TaskNext(f))

\* compress_file alone, on every input
ChainStart == ChainInit /\ SchedInit /\ TrackIdle /\ SideIdle /\ listing = BatchListing

ChainSpec == ChainStart /\ [][ChainNext]_vars

\* the tool of the end-to-end scenario: the first attempt on a video fails,
\* the second succeeds
ScenarioOut(k) == IF k = 1 THEN OutFail ELSE OutOk

\* a task in a run without faults, in which the appends to failed.txt succeed,
\* every image attempt succeeds and a video attempt ends as vout tells
ScriptedTask(f, vout) ==
    \/ PoolStart(f)
    \/ TaskMark(f)
    \/ TaskAcquire(f)
    \/ VideoBegin(f)
    \/ VideoLine(f)
    \/ VideoEnd(f, vout)
    \/ ImageRun(f, <<OutOk, OutOk>>)
    \/ TaskTotals(f)
    \/ TaskFinally(f, TRUE)
    \/ TaskRelease(f)
    \/ TaskEmit(f)

ScriptedMain ==
    \/ MainStart(TRUE)
    \/ MainSubmit
    \/ MainJoinPool
    \/ MainWaitRead
    \/ MainCheck
    \/ MainJoinStats
    \/ MainAck

\* the end-to-end scenario: one video, one image, one file of no class
ScenarioStart == Init /\ listing = ScenarioListing

ScenarioNext ==
    \/ ScriptedMain
    \/ \E f \in Files : ScriptedTask(f, ScenarioOut(attempt[f] + 1))
    \/ StatsNext

ScenarioSpec == ScenarioStart /\ [][ScenarioNext]_vars

\* three videos and an image, in a run in which every attempt succeeds
PoolInit == listing = PoolListing /\ SchedReset /\ ChainIdle /\ TrackIdle /\ SideIdle

PoolNext ==
    \/ ScriptedMain
    \/ \E f \in Files : ScriptedTask(f, OutOk)
    \/ StatsNext

PoolSpec == PoolInit /\ [][PoolNext]_vars

\* the progress parser alone, on every stream
TrackStart == TrackInit /\ SchedInit /\ ChainIdle /\ SideIdle /\ listing = BatchListing

TrackSpec == TrackStart /\ [][TrackNext]_vars

\* The failure sink on its own: main's start and LogWorkers finally blocks
LogBegin ==
    LogInit /\ ProbeIdle /\ RateIdle /\ PipeIdle /\ SchedInit /\ ChainIdle /\ TrackIdle /\ listing = BatchListing

LogSpec == LogBegin /\ [][LogNext]_vars

\* The duration prober on every combination of outputs of its ffprobe calls
ProbeStart ==
    ProbeInit /\ LogIdle /\ RateIdle /\ PipeIdle /\ SchedInit /\ ChainIdle /\ TrackIdle /\ listing = BatchListing

ProbeSpec == ProbeStart /\ [][ProbeNext]_vars

\* The rolling throughput on bursts, steady flows and trickles of completions
RateStart ==
    RateInit /\ LogIdle /\ ProbeIdle /\ PipeIdle /\ SchedInit /\ ChainIdle /\ TrackIdle
             /\ listing = BatchListing

RateSpec == RateStart /\ [][RateNext]_vars

\* An external process and the orchestrator that started it; the operating
\* system lets each of them run whenever it is not blocked
PipeStart ==
    PipeInit /\ LogIdle /\ ProbeIdle /\ RateIdle /\ SchedInit /\ ChainIdle /\ TrackIdle
             /\ listing = BatchListing

PipeSpec == PipeStart /\ [][PipeNext]_vars /\ WF_vars(PipeNext)

(***************************************************************************)
(* Properties                                                              *)
(***************************************************************************)
VideoHolders == {f \in holders : IsVideo(f)}
ImageHolders == {f \in holders : ~IsVideo(f)}

\* C1: the tasks of one class that are between a successful sem.acquire() and
\* the matching sem.release() never outnumber the capacity of the class.
C1_LimiterBound ==
    /\ Cardinality(VideoHolders) <= VideoCap
    /\ Cardinality(ImageHolders) <= ImageCap

\* the image limiter is full and one more image task waits at sem.acquire()
C1_Witness ==
    /\ Cardinality(ImageHolders) = ImageCap
    /\ \E f \in Jobs : ~IsVideo(f) /\ tpc[f] = "acquire"

\* the input files whose extension is in a video or an image class
Classified ==
    {f \in 1..Len(listing) :
        Lower(listing[f].ext) \in VIDEO_EXTS \/ Lower(listing[f].ext) \in IMAGE_EXTS}

\* main has left the wait loop of lines 246-251
RunFinished == mpc \in {"joining", "input", "exit"}

\* C2: once the run has finished, completed_count equals submitted_count and
\* both equal the number of input files of a video or image class.
C2_CountsAtEnd ==
    RunFinished =>
        /\ completed_count = submitted_count
        /\ submitted_count = Cardinality(Classified)

\* a finished run over a listing that holds an unclassified file
C2_Witness ==
    /\ mpc = "exit"
    /\ Cardinality(Classified) < Len(listing)
    /\ completed_count = Cardinality(Classified)
    /\ completed_count > 0

\* C3: every successful acquire is followed by exactly one release on every
\* exit path: a task that has ended holds no slot of its limiter, and the
\* free slots are the capacity less the tasks still between acquire and release.
C3_ReleasedOnEveryExit ==
    /\ \A f \in Jobs : tpc[f] = "done" => f \notin holders
    /\ video_sem = VideoCap - Cardinality({f \in VideoHolders : tpc[f] # "done"})
    /\ image_sem = ImageCap - Cardinality({f \in ImageHolders : tpc[f] # "done"})

\* the attempts of the chain of c_ext: 3 for a video, 2 for an image, else 0
ChainLen ==
    IF Lower(c_ext) \in VIDEO_EXTS THEN 3
    ELSE IF Lower(c_ext) \in IMAGE_EXTS THEN 2 ELSE 0

\* the first attempt of the chain that exits with status zero, 0 if none does
FirstOk ==
    IF \E k \in 1..ChainLen : c_outs[k].returncode = 0
    THEN CHOOSE k \in 1..ChainLen :
            /\ c_outs[k].returncode = 0
            /\ \A j \in 1..(k - 1) : c_outs[j].returncode # 0
    ELSE 0

TagOf(k) == IF Lower(c_ext) \in VIDEO_EXTS THEN VideoTag(k) ELSE ImageTag(k)

\* C4: when attempt k is the first to exit with status zero, compress_file
\* runs attempts 1..k in that order, each once, no later attempt, and returns
\* attempt k's tag with error None.
C4_FirstSuccessWins ==
    (c_pc # "idle" /\ FirstOk > 0) =>
        /\ Len(c_invoked) <= FirstOk
        /\ \A i \in 1..Len(c_invoked) : c_invoked[i] = i
        /\ c_pc = "ret" =>
              /\ Len(c_invoked) = FirstOk
              /\ c_ret.type = TagOf(FirstOk)
              /\ c_ret.error = None

\* a video chain whose second attempt succeeded, and an image chain likewise
C4_Witness ==
    /\ c_pc = "ret"
    /\ Lower(c_ext) \in VIDEO_EXTS
    /\ FirstOk = 2
    /\ c_invoked = <<1, 2>>
    /\ c_ret.type = "video-gpu-swdec"

\* what the external tool wrote to stderr in attempt k, stripped
Diagnostic(k) == Strip(c_outs[k].stderr)

AllDiagnostics == [k \in 1..ChainLen |-> Diagnostic(k)]

\* C5: when every attempt of the chain fails, compress_file returns a failed tag
\* with the error ffmpeg_failed and the diagnostics of all attempts, joined.
C5_AllFailedDiagnostics ==
    (c_pc = "ret" /\ ChainLen > 0 /\ FirstOk = 0) =>
        /\ c_ret.type \in {"video-failed", "image-failed"}
        /\ c_ret.error = Some(FfmpegFailed)
        /\ c_ret.error_log = JoinLines(NonEmpty(AllDiagnostics))

\* the fields of the aggregate state that the tasks write
WorkerFields ==
    <<completed_count, active_jobs, active_filenames, total_original_size,
      total_compressed_size, completed_timestamps>>

\* C6 as stated: the consumer thread is the only writer of the aggregate
\* state, so a step that changes the counts, the active set, the cumulative
\* sizes or the timestamps is a step of update_stats.
C6_OnlyAggregatorWrites ==
    [][WorkerFields' # WorkerFields => StatsNext]_vars

\* C6: the aggregate state has several writers: the tasks write the completed
\* count, the active set and counter, the cumulative sizes and the timestamps
\* in their with-lock blocks, main writes submitted_count, and update_stats
\* writes nothing of the aggregate state but the last-progress map.
C6_Writers ==
    [][/\ WorkerFields' # WorkerFields =>
             \E f \in Files :
                 TaskMark(f) \/ TaskTotals(f) \/ \E ok \in BOOLEAN : TaskFinally(f, ok)
       /\ submitted_count' # submitted_count => MainSubmit
       /\ StatsNext =>
             UNCHANGED <<WorkerFields, submitted_count, active_file_sizes>>]_vars

\* a task has completed, the consumer has applied its completion event and
\* has stored the terminal sample of a video that is still active
C6_Witness ==
    /\ completed_count >= 1
    /\ ui_results # << >>
    /\ \E f \in DOMAIN progress_by_file :
          /\ progress_by_file[f] = <<Some(100), None>>
          /\ f \in active_filenames

\* a task waits at sem.acquire() and every holder of its limiter has ended
Starved(f) ==
    /\ tpc[f] = "acquire"
    /\ ~CanAcquire(SemOf(f))
    /\ \A g \in holders : IsVideo(g) = IsVideo(f) => tpc[g] = "done"

\* C7: a fault raised inside a task is caught in the task and becomes a
\* completion record with an error: no exception is left in the task's
\* future, every ended task has built its record, and no task is left waiting
\* for ever because of a fault of another task.
C7_FaultsBecomeRecords ==
    /\ \A f \in Jobs : tpc[f] = "done" =>
          /\ f \notin future_exc
          /\ \E r \in records : r.filename = f
    /\ \A f \in Jobs : ~Starved(f)

RECURSIVE SumSavings(_)
SumSavings(S) ==
    IF S = {} THEN 0
    ELSE LET r == CHOOSE x \in S : TRUE IN r.savings + SumSavings(S \ {r})

\* C8: at the end of the run total_original_size - total_compressed_size is
\* the sum of the savings of the completion records of all completed jobs.
C8_SavingsIdentity ==
    RunFinished =>
        total_original_size - total_compressed_size = SumSavings(records)

\* a finished run with a faulted job, a job of negative savings and a job
\* whose chain failed
C8_Witness ==
    /\ RunFinished
    /\ \E r \in records : r.result = None /\ Truthy(r.error)
    /\ \E r \in records : r.savings < 0
    /\ \E r \in records : r.result # None /\ Truthy(r.error)
    /\ total_original_size > 0

\* C9: completed_count never exceeds submitted_count.
C9_CompletedLeSubmitted == completed_count <= submitted_count

\* some jobs have completed while others are still submitted and unfinished
C9_Witness ==
    /\ completed_count >= 1
    /\ completed_count < submitted_count
    /\ mpc = "submit"

\* the task has run lines 143-145 and not yet lines 198-204
Started(f) == tpc[f] \in {"acquire", "run", "stream", "totals", "except", "finally"}

\* C10: the active set holds exactly the jobs that have marked themselves
\* active and have not completed; its size is active_jobs; a job that no
\* worker has started is not in it; the queued count is not negative.
C10_ActiveSet ==
    /\ active_filenames = {f \in Jobs : Started(f)}
    /\ Cardinality(active_filenames) = active_jobs
    /\ \A f \in Jobs : tpc[f] \in {"queued", "mark"} => f \notin active_filenames
    /\ submitted_count - completed_count - active_jobs >= 0

\* one job waits in the pool's queue, one is active and one has completed
C10_Witness ==
    /\ \E f \in Jobs : tpc[f] = "queued"
    /\ active_jobs >= 1
    /\ completed_count >= 1
    /\ Queued >= 1

\* the completion events of job f that wait on the queue
CompletionsQueued(f) ==
    Cardinality({i \in 1..Len(ui_events) :
                    /\ ui_events[i].type = "file_complete"
                    /\ ui_events[i].payload.filename = f})

\* the times the consumer has applied a completion event of job f
Applied(f) == Cardinality({i \in 1..Len(ui_results) : ui_results[i] = f})

\* C11: every submitted job puts exactly one file_complete event on the queue
\* and the consumer applies it exactly once: never two, one as soon as the
\* task has ended, and one applied for every job when the run has finished.
C11_OneCompletionPerJob ==
    \A f \in Jobs :
        /\ CompletionsQueued(f) + Applied(f) <= 1
        /\ tpc[f] = "done" => CompletionsQueued(f) + Applied(f) = 1
        /\ RunFinished => Applied(f) = 1

\* the elapsed positions the parser reads from the lines never go back
OrderedStream(st) ==
    \A i, j \in 1..Len(st) :
        (i < j /\ IsOutTime(st[i]) /\ st[i].ok /\ IsOutTime(st[j]) /\ st[j].ok)
            => ElapsedUs(st[i]) <= ElapsedUs(st[j])

\* the process writes nothing after its terminal marker
EndsAtMarker(st) == \A i \in 1..Len(st) : st[i] = EndLine => i = Len(st)

\* successive samples never go down inside an attempt before 100, and a
\* sample below its predecessor is the initial 0 sample of a new attempt
MonotoneSamples(smps) ==
    \A i \in 1..(Len(smps) - 1) :
        LET a == smps[i]
            b == smps[i + 1]
        IN  /\ (a.attempt = b.attempt /\ a.percent < 100) => b.percent >= a.percent
            /\ b.percent < a.percent =>
                  (b.first /\ b.percent = 0 /\ b.attempt > a.attempt)

\* C12 as stated: within one attempt the percents of successive samples are
\* non-decreasing until 100, and a sample lower than its predecessor is only
\* the initial 0 sample of a new fallback attempt, whatever the process writes.
C12_PercentMonotone == MonotoneSamples(p_samples)

\* C12: the parser computes each percent from the line at hand and keeps no
\* running maximum, so the samples are monotone when the elapsed positions
\* it reads from the lines are non-decreasing and nothing follows the
\* terminal marker.
C12_MonotoneOnOrderedStream ==
    (OrderedStream(p_stream) /\ EndsAtMarker(p_stream)) => MonotoneSamples(p_samples)

\* a first attempt that reported 50 percent and then its terminal marker,
\* followed by a second attempt that starts again at 0
C12_Witness ==
    /\ p_pc = "done"
    /\ p_dur = Some(10)
    /\ OrderedStream(p_stream) /\ EndsAtMarker(p_stream)
    /\ Len(p_samples) >= 4
    /\ p_samples[2].percent = 50 /\ p_samples[3].percent = 100
    /\ p_samples[4].first /\ p_samples[4].attempt = 2 /\ p_samples[4].percent = 0

\* the directory entries whose extension is in no class
Unclassified == (1..Len(listing)) \ Classified

\* the events on the queue, or in the consumer's hands, that name file f
EventsNaming(f) ==
    {i \in 1..Len(ui_events) : ui_events[i].payload.filename = f}

\* C14: a file whose lowered extension is in no class is never submitted: it
\* is not counted in submitted_count, no task exists for it, it is in no
\* active set, size map or progress map, it holds no limiter slot, and no
\* progress or completion event carries its name.
C14_SkipNeverScheduled ==
    /\ submitted_count <= Cardinality(Classified)
    /\ \A f \in Unclassified :
          /\ tpc[f] = "none"
          /\ f \notin active_filenames
          /\ f \notin DOMAIN active_file_sizes
          /\ f \notin DOMAIN progress_by_file
          /\ f \notin holders
          /\ EventsNaming(f) = {}
          /\ cur_ev # None => cur_ev[1].payload.filename # f
          /\ Applied(f) = 0

\* a finished run over a video, an image and a file of no class, with both
\* jobs completed and applied
C14_Witness ==
    /\ mpc = "exit"
    /\ listing = ScenarioListing
    /\ Unclassified = {3}
    /\ submitted_count = 2
    /\ Len(ui_results) = 2

\* C13: in the end-to-end scenario (a video of probed duration 10 whose first
\* attempt fails and whose second attempt reports out_time_ms=5000000 and
\* then its terminal marker, an image whose first attempt succeeds, a file of
\* no class) the run ends with submitted_count = completed_count = 2, the
\* video's outcome has the tag of attempt 2, the sample of the reported line
\* has percent 50 and is the last before the terminal marker, whose sample
\* has percent 100, failed.txt is empty and no event names the third file.
C13_Scenario ==
    /\ [](RunFinished =>
            /\ submitted_count = 2
            /\ completed_count = 2
            /\ failed_log = << >>
            /\ \E r \in records : r.filename = 1 /\ r.result = Some(RetOk(VideoTag(2)))
            /\ \E r \in records : r.filename = 2 /\ r.result = Some(RetOk(ImageTag(1))))
    /\ [](/\ tpc[3] = "none"
          /\ EventsNaming(3) = {}
          /\ Applied(3) = 0
          /\ cur_ev # None => cur_ev[1].payload.filename # 3)
    /\ [][/\ line_no'[1] = line_no[1] + 1 =>
                ui_events' = Append(ui_events, ProgressEvent(1, Some(50), None))
          /\ (tpc[1] = "stream" /\ tpc'[1] = "totals") =>
                /\ percent[1] = 50
                /\ attempt[1] = 1
                /\ ui_events' = Append(ui_events, ProgressEvent(1, Some(100), None))]_vars

\* the scenario has run to its end
C13_Witness ==
    /\ mpc = "exit"
    /\ n_failed = 1
    /\ submitted_count = 2
    /\ ui_results \in {<<1, 2>>, <<2, 1>>}
    /\ \E r \in records : r.filename = 1 /\ r.result = Some(RetOk("video-gpu-swdec"))

\* every pool worker is taken and one of them is parked on a full limiter
PoolExhausted ==
    /\ Cardinality(Busy) >= max_workers
    /\ \E g \in Busy : tpc[g] = "acquire" /\ ~CanAcquire(SemOf(g))

\* C15: the capacity of a class, not the size of the pool, is what holds a job
\* back: no submitted job waits for a pool worker, its own limiter having a
\* free slot, while the workers are taken by tasks parked on another limiter.
C15_CapacityBinds ==
    \A f \in Jobs : (tpc[f] = "queued" /\ CanAcquire(SemOf(f))) => ~PoolExhausted

\* main has left the pool's with block (lines 221-243)
PastPoolJoin == mpc \in {"wait", "check", "joining", "input", "exit"}

\* C16: main leaves the pool join only when every submitted task has
\* returned, sets stop_event and joins the consumer only after that, and
\* waits for the user's acknowledgment only when the consumer has ended.
C16_PhaseOrder ==
    /\ PastPoolJoin =>
          /\ idx > Len(files_to_process)
          /\ \A f \in Jobs : tpc[f] = "done"
    /\ stop_event <=> mpc \in {"joining", "input", "exit"}
    /\ mpc \in {"input", "exit"} => spc = "ended"
    /\ spc = "ended" => stop_event

\* main waits for the acknowledgment after a run of three jobs
C16_Witness ==
    /\ mpc = "input"
    /\ spc = "ended"
    /\ submitted_count = 3
    /\ completed_count = 3

\* the blocks of failed.txt that name job f
BlocksOf(f) ==
    Cardinality({i \in 1..Len(failed_log) : failed_log[i].filename = f})

\* the completion events of job f that carry an error, queued or applied
ErrorCompletions(f) ==
    Cardinality({i \in 1..Len(ui_events) :
                    /\ ui_events[i].type = "file_complete"
                    /\ ui_events[i].payload.filename = f
                    /\ Truthy(ui_events[i].payload.error)})
    + Cardinality({i \in 1..Len(ui_errors) : ui_errors[i] = f})

\* the job failed in all its attempts or faulted
Errored(f) ==
    \/ f \in future_exc
    \/ \E r \in records : r.filename = f /\ Truthy(r.error)

\* C17: a job that ended with an error has put one completion event carrying
\* the error and has one block in failed.txt, a job without error has no
\* block, and at the end of the run failed.txt has as many blocks as there
\* are completion records with an error.
C17_FailuresLogged ==
    /\ \A f \in Jobs : tpc[f] = "done" =>
          /\ Errored(f) => (BlocksOf(f) = 1 /\ ErrorCompletions(f) = 1)
          /\ ~Errored(f) => BlocksOf(f) = 0
    /\ RunFinished => Len(failed_log) = Len(ui_errors)

\* C18: when init_nvml returns an error main returns before scheduling: no
\* job is submitted, no task and no consumer thread is started, and
\* submitted_count stays 0.
C18_AbortBeforeScheduling ==
    mpc = "aborted" =>
        /\ submitted_count = 0
        /\ idx = 1
        /\ \A f \in Files : tpc[f] = "none"
        /\ spc = "idle"
        /\ ui_events = << >>
        /\ completed_count = 0
        /\ active_jobs = 0

\* the run was aborted over a directory that holds three jobs
C18_Witness ==
    /\ mpc = "aborted"
    /\ Len(files_to_process) = 3

\* the tasks that wait at, or are about to call, sem.acquire()
AtAcquire == {f \in Jobs : tpc[f] = "acquire"}

\* C19: a task is in the active set, and counted in active_jobs, in every
\* state in which it waits at sem.acquire().
C19_ActiveBeforeAcquire ==
    /\ AtAcquire \subseteq active_filenames
    /\ active_jobs >= Cardinality(AtAcquire)

\* a video task is blocked on the full video limiter and shows as active
C19_Witness ==
    \E f \in AtAcquire :
        /\ IsVideo(f)
        /\ ~CanAcquire(video_sem)
        /\ f \in active_filenames
        /\ active_jobs = 2

\* the filenames of the completion events in the order they were put: those
\* the consumer has applied, then those still on the queue
PutOrder ==
    ui_results \o
    [i \in 1..Len(SelectSeq(ui_events, LAMBDA e : e.type = "file_complete")) |->
        SelectSeq(ui_events, LAMBDA e : e.type = "file_complete")[i].payload.filename]

IsPrefix(a, b) == Len(a) <= Len(b) /\ SubSeq(b, 1, Len(a)) = a

\* the consumer applies a completion event of job f in this step
Applies(f) == Applied(f)' = Applied(f) + 1

\* C20 as stated: the consumer applies the completion events in the order in
\* which the workers finished, that is in the order of their increments of
\* completed_count.
C20_AppliedInFinishOrder ==
    [][\A f \in Files : Applies(f) => Head(finish_order) = f]_vars

\* C20: the consumer applies the completion events in the order in which
\* they were put on the queue, and a job's event is put after the job has
\* counted its completion; the order of the puts of two jobs need not be the
\* order of their increments, since the put follows the release of the lock.
C20_AppliedInPutOrder ==
    [][/\ IsPrefix(PutOrder, PutOrder')
       /\ \A f \in Files : Applies(f) => ui_results' = Append(ui_results, f)
       /\ \A f \in Files : CompletionsQueued(f)' > CompletionsQueued(f) =>
             \E i \in 1..Len(finish_order) : finish_order[i] = f]_vars

\* two completion events wait on the queue in the reverse of the order in
\* which their jobs counted their completions
C20_Witness ==
    /\ Len(finish_order) = 2
    /\ Len(ui_events) = 2
    /\ ui_events[1].type = "file_complete"
    /\ ui_events[2].type = "file_complete"
    /\ ui_events[1].payload.filename = finish_order[2]
    /\ ui_events[2].payload.filename = finish_order[1]

(***************************************************************************)
(* C21-C30                                                                 *)
(***************************************************************************)

\* the line the parser reads in this step, if it reads one
ReadsLine(line) ==
    /\ p_pc = "read"
    /\ p_pos < Len(p_stream)
    /\ p_pos' = p_pos + 1
    /\ p_stream[p_pos + 1] = line

\* this step hands exactly one sample to the callback
EmitsOne == p_samples' = Append(p_samples, p_samples'[Len(p_samples')])

\* this step hands no sample to the callback
EmitsNone == p_samples' = p_samples

\* the last sample handed to the callback after this step
NewSample == p_samples'[Len(p_samples')]

\* C23: reading the terminal marker emits exactly one sample, and its
\* percent is 100, whether the duration is known, None or zero and whatever
\* the percent was before.
C23_MarkerForcesHundred ==
    [][ReadsLine(EndLine) =>
            /\ EmitsOne
            /\ NewSample.percent = 100
            /\ NewSample.speed = None]_vars

\* the marker read with an unknown duration, after a line that left percent 0
C23_Witness ==
    /\ p_dur = None
    /\ p_pos = 2
    /\ p_stream[1] = Line("out_time_ms", TRUE, 5000000)
    /\ p_stream[2] = EndLine
    /\ Len(p_samples) = 3
    /\ p_samples[2].percent = 0
    /\ p_samples[3].percent = 100

\* this step reads a speed line
ReadsSpeed == \E l \in Lines : l.key = "speed" /\ ReadsLine(l)

\* the speed multiplier the line at hand carries, when it parses
SpeedRead ==
    LET l == p_stream[p_pos + 1] IN IF l.ok THEN Some(l.num) ELSE None

RECURSIVE PercentAfter(_, _, _)
\* the percent of the last output-time line that parsed among the first n
\* lines of the stream, 0 when there is none
PercentAfter(dur, st, n) ==
    IF n = 0 THEN 0
    ELSE IF IsOutTime(st[n]) /\ st[n].ok THEN Percent(ElapsedUs(st[n]), dur)
    ELSE PercentAfter(dur, st, n - 1)

\* C24 as stated: a speed line emits one sample with the parsed speed and
\* the percent of the most recent sample emitted in the same attempt, a 100
\* forced by a terminal marker included.
C24_SpeedRepeatsLastSample ==
    [][ReadsSpeed =>
            /\ EmitsOne
            /\ NewSample.speed = SpeedRead
            /\ NewSample.percent = p_samples[Len(p_samples)].percent]_vars

\* C24: a speed line emits one sample with the parsed speed and the percent
\* of the most recent output-time line of the same attempt (0 when none was
\* read yet); the 100 of a terminal marker is not kept, and the percent is
\* not recomputed.
C24_SpeedRepeatsLastComputed ==
    [][ReadsSpeed =>
            /\ EmitsOne
            /\ NewSample.speed = SpeedRead
            /\ NewSample.percent = PercentAfter(p_dur, p_stream, p_pos)
            /\ p_percent' = p_percent]_vars

\* a speed line read after an output-time line that gave 50: the sample
\* carries 50 and the multiplier 2.34
C24_Witness ==
    /\ p_dur = Some(10)
    /\ p_pos = 2
    /\ p_stream[1] = Line("out_time_ms", TRUE, 5000000)
    /\ p_stream[2] = Line("speed", TRUE, 234)
    /\ Len(p_samples) = 3
    /\ p_samples[3].percent = 50
    /\ p_samples[3].speed = Some(234)

\* the elapsed output position a line states, in microseconds: the value of
\* an out_time_ms or out_time_us line, and for out_time the signed time
\* HH:MM:SS (a leading '-' negates the whole time)
PositionUs(line) ==
    IF line.key # "out_time" THEN line.num
    ELSE LET a == IF line.num < 0 THEN 0 - line.num ELSE line.num
             us == ((a \div 10000) * 3600 + ((a \div 100) % 100) * 60 + (a % 100)) * 1000000
         IN  IF line.num < 0 THEN 0 - us ELSE us

\* clamp(elapsed / duration * 100, 0, 100) for a positive duration, else 0
ClampedRatio(us, dur) ==
    IF dur # None /\ dur[1] > 0 THEN Clamp((us \div 10000) \div dur[1]) ELSE 0

\* the same line under the other microsecond key
OtherKey(line) ==
    [line EXCEPT !.key = IF line.key = "out_time_ms" THEN "out_time_us" ELSE "out_time_ms"]

\* C25: every output-time line that parses emits the percent
\* clamp(elapsed / duration * 100, 0, 100) of the position it states when a
\* positive duration is known and 0 otherwise, always within 0..100, and an
\* out_time_ms and an out_time_us line of the same value give the same sample.
C25_PercentIsClampedRatio ==
    [][\A l \in Lines :
          (IsOutTime(l) /\ l.ok /\ ReadsLine(l)) =>
              /\ EmitsOne
              /\ NewSample.percent \in 0..100
              /\ NewSample.percent = ClampedRatio(PositionUs(l), p_dur)
              /\ l.key # "out_time" =>
                    TrackLine(p_dur, p_percent, OtherKey(l)).emit
                        = TrackLine(p_dur, p_percent, l).emit]_vars

\* the keys the parser recognizes
KnownKeys == {"out_time_ms", "out_time_us", "out_time", "speed", "progress"}

\* a line without '=', with an unknown key, or with a recognized key whose
\* value does not parse
Malformed(line) == line.key \notin KnownKeys \/ ~line.ok

\* the parser goes on with the next line
ReadsOn == p_pc' = "read" /\ p_pos' = p_pos + 1 /\ p_percent' = p_percent

\* C26 as stated: a malformed line emits no sample, leaves the last known
\* percent unchanged and does not stop the parsing.
C26_MalformedIgnored ==
    [][\A l \in Lines : (Malformed(l) /\ ReadsLine(l)) => (EmitsNone /\ ReadsOn)]_vars

\* C26: a malformed line leaves the last known percent unchanged and does
\* not stop the parsing; it emits no sample, except a speed line whose value
\* does not parse, which emits one sample with the last known percent and
\* no speed.
C26_MalformedNotFatal ==
    [][\A l \in Lines :
          (Malformed(l) /\ ReadsLine(l)) =>
              /\ ReadsOn
              /\ IF l.key = "speed"
                 THEN EmitsOne /\ NewSample.percent = p_percent /\ NewSample.speed = None
                 ELSE EmitsNone]_vars

\* after 50 percent, a line with an unknown key and a line without '=' were
\* read: still two samples, and the percent is still 50
C26_Witness ==
    \E st \in {<<Line("out_time_ms", TRUE, 5000000), Line("frame", TRUE, 10)>>,
               <<Line("out_time_ms", TRUE, 5000000), Line("out_time", FALSE, 0)>>} :
        /\ p_stream = st
        /\ p_dur = Some(10)
        /\ p_pos = 2
        /\ p_percent = 50
        /\ Len(p_samples) = 2

\* main.py:122-123: the percent the active list shows for a name, None
\* standing for the "--%" of a job without a numeric percent
ShownPercent(name) ==
    IF name \in DOMAIN progress_by_file THEN progress_by_file[name][1] ELSE None

\* a streaming attempt of f starts in this step
StartsAttempt(f) == tpc[f] = "run" /\ IsVideo(f) /\ tpc'[f] = "stream"

\* C22: a streaming attempt first emits a sample with percent 0, before it
\* has read a line; and in every state an active video has a last-progress
\* entry with a numeric percent, so the active list never shows "--%" for it.
C22_NeverUnknown ==
    /\ [](\A f \in active_filenames : IsVideo(f) => ShownPercent(f) # None)
    /\ [][\A f \in Jobs :
            StartsAttempt(f) =>
                /\ ui_events' = Append(ui_events, ProgressEvent(f, Some(0), None))
                /\ line_no'[f] = 0]_vars

\* an active video in a streaming attempt whose entry holds the 50 percent of
\* the last sample the consumer applied
C22_Witness ==
    \E f \in active_filenames :
        /\ IsVideo(f)
        /\ tpc[f] = "stream"
        /\ ShownPercent(f) = Some(50)

\* the consumer is inside a tick: it holds an event it took from the queue
\* and has not applied yet, or it has ended its drain and has not yet
\* recomputed the derived view
MidTick == spc \in {"progress", "view"}

\* a step of a pool worker: a task moves, and main submits nothing
WorkerStep == tpc' # tpc /\ idx' = idx

\* C21: the consumer applies the events of one drain and recomputes the
\* derived view inside a single mutual-exclusion scope: while it is between
\* two events of a drain, or between the drain and the view, no step of a
\* worker changes the aggregate state.
C21_TickInOneScope ==
    [][(MidTick /\ WorkerStep) => UNCHANGED aggVars]_vars

\* tasks that hold failed.txt open
Writing == {w \in Writers : log_pc[w] \in {"open", "write", "rest"}}

\* every second piece of a block directly follows the first piece of the
\* same task
BlocksWhole ==
    \A i \in 1..Len(log_file) :
        log_file[i][2] = 2 => (i > 1 /\ log_file[i - 1] = <<log_file[i][1], 1>>)

\* this step leaves the file alone or adds one piece at its end
AppendsOnly ==
    \/ log_file' = log_file
    \/ \E w \in Writers, k \in {1, 2} : log_file' = Append(log_file, <<w, k>>)

\* nothing of an earlier run is in the file
NothingOld == \A i \in 1..Len(log_file) : log_file[i][1] # 0

\* C28 as stated: the log is emptied at process start, before any task runs,
\* and afterwards only appended to; at most one task writes at a time and
\* blocks never interleave.
C28_EmptiedThenAppended ==
    /\ [](log_main = "init" => \A w \in Writers : log_pc[w] = "try")
    /\ [](log_main = "pool" => NothingOld)
    /\ [](Cardinality(Writing) <= 1 /\ BlocksWhole)
    /\ [][log_main # "init" => AppendsOnly]_vars

\* C28: main tries once, before any task runs, to empty the log, and goes on
\* with the log as it was when that fails; afterwards the log is only
\* appended to; at most one task writes at a time and blocks never
\* interleave.
C28_AppendsSerialized ==
    /\ [](log_main = "init" => \A w \in Writers : log_pc[w] = "try")
    /\ [](Cardinality(Writing) <= 1 /\ BlocksWhole)
    /\ [][log_main = "init" => log_file' \in {<< >>, log_file}]_vars
    /\ [][log_main # "init" => AppendsOnly]_vars

\* the log was emptied and holds the whole blocks of two failed tasks, the
\* second task's first
C28_Witness ==
    /\ log_file = <<<<2, 1>>, <<2, 2>>, <<1, 1>>, <<1, 2>>>>
    /\ lock = 0
    /\ \A w \in Writers : log_pc[w] = "done"

\* a text that is no positive number: the call raised, or printed nothing, a
\* text that is no number, or a number that is zero or negative
NoPositiveNumber(t) == t.kind # "num" \/ t.num <= 0

\* a text that is no positive frame rate: as above, or a fraction with a
\* zero denominator or a zero or negative value
NoPositiveRate(t) ==
    /\ NoPositiveNumber(t)
    /\ ~(t.kind = "frac" /\ t.den # 0 /\ t.num * t.den > 0)

\* frames / rate in milliseconds, rate being the text num/den or num
FramesByRate(frames, rate) == (frames.num * rate.den * 1000) \div rate.num

\* the value the k-th strategy yields when it yields a positive number,
\* None when it fails
Yield(k) ==
    CASE k = 1 -> IF NoPositiveNumber(d_outs.format) THEN None
                  ELSE Some(d_outs.format.num * 1000)
      [] k = 2 -> IF NoPositiveNumber(d_outs.stream) THEN None
                  ELSE Some(d_outs.stream.num * 1000)
      [] k = 3 -> IF NoPositiveNumber(d_outs.nb_frames)
                     \/ NoPositiveRate(d_outs.avg_frame_rate) THEN None
                  ELSE Some(FramesByRate(d_outs.nb_frames, d_outs.avg_frame_rate))
      [] k = 4 -> LET o == d_outs.count_frames IN
                  IF o.kind = "raise" THEN None
                  ELSE IF Len(o.lines) < 2 THEN None
                  ELSE IF NoPositiveNumber(o.lines[1]) \/ NoPositiveRate(o.lines[2])
                  THEN None
                  ELSE Some(FramesByRate(o.lines[1], o.lines[2]))

\* the ffprobe calls the k-th strategy makes
CallsOf(k) ==
    CASE k = 1 -> <<"format">>
      [] k = 2 -> <<"stream">>
      [] k = 3 -> IF d_outs.nb_frames.kind = "raise" THEN <<"nb_frames">>
                  ELSE <<"nb_frames", "avg_frame_rate">>
      [] k = 4 -> <<"count_frames">>

RECURSIVE CallsUpTo(_)
CallsUpTo(k) == IF k = 0 THEN << >> ELSE CallsUpTo(k - 1) \o CallsOf(k)

\* the strategies that yield a positive number
Yielding == {k \in 1..4 : Yield(k) # None}

\* C27: the prober runs its strategies in the order container duration,
\* stream duration, frame count / frame rate, counted frames / frame rate,
\* returns the value of the first one that yields a positive number and runs
\* none after it; a strategy that raises or reads an empty, non-numeric,
\* zero or negative value or a zero denominator falls through; when all four
\* fail it returns None.
C27_FirstPositiveStrategy ==
    d_pc = "returned" =>
        IF Yielding = {}
        THEN d_ret = None /\ d_calls = CallsUpTo(4)
        ELSE LET first == CHOOSE k \in Yielding : \A j \in Yielding : k <= j
             IN  d_ret = Yield(first) /\ d_calls = CallsUpTo(first)

\* the container duration is 0 and the stream duration is N/A, so the third
\* strategy returns 240 frames / (24/1) = 10 s
C27_Witness ==
    /\ d_pc = "returned"
    /\ d_outs.format = Num(0)
    /\ d_outs.stream = NotANumber
    /\ d_calls = <<"format", "stream", "nb_frames", "avg_frame_rate">>
    /\ d_ret = Some(10000)

\* the jobs that completed within the last 30 seconds
CompletedInWindow == Cardinality({i \in 1..Len(r_all) : r_now - r_all[i] <= Window})

\* C29 as stated: on every tick the rate shown is the number of jobs that
\* completed within the last 30 seconds, divided by 30, for every number of
\* completions in the window, and the buffer never holds more than 1000
\* entries.
C29_RateIsWindowCount ==
    /\ [](Len(r_stamps) <= TsMaxLen)
    /\ [][RateTick => r_rate' = Some(CompletedInWindow)]_vars

\* C29: the buffer never holds more than 1000 entries, and on every tick the
\* rate shown is, divided by 30, the number of jobs that completed within
\* the last 30 seconds when that number is at most 1000, and 1000 when it is
\* larger.
C29_RateIsCappedWindowCount ==
    /\ [](Len(r_stamps) <= TsMaxLen)
    /\ [][RateTick => r_rate' = Some(MinOf(CompletedInWindow, TsMaxLen))]_vars

\* a steady flow of 40 completions, one per second: the tick after it counts
\* the 30 that are at most 30 seconds old
C29_Witness ==
    /\ r_gap = 1
    /\ Len(r_all) = 40
    /\ r_pc = "shown"
    /\ r_rate = Some(30)

\* the run is over: main has left its wait loop, joined the consumer and
\* returned, and every submitted job has run to its end and holds no slot
RunOver ==
    /\ mpc = "exit"
    /\ spc = "ended"
    /\ holders = {}
    /\ \A f \in Jobs : tpc[f] = "done"

\* C30: under fair scheduling every run that is not aborted at start comes
\* to its end: every task blocked on a limiter acquires it, every submitted
\* job completes, the pool join returns, main's wait loop exits and the
\* consumer thread stops.
C30_EveryRunEnds == <>(mpc = "aborted" \/ RunOver)

(***************************************************************************)
(* C31-C35                                                                 *)
(***************************************************************************)

\* the task of f has ended after the size query of its except branch raised:
\* no record was built, and the exception of line 206 is in the future
HandlerFaulted(f) == tpc[f] = "done" /\ f \in future_exc

\* C31: a task whose fault handler itself faulted has still released its
\* limiter slot and has still put a completion event for its job on the
\* queue, besides having counted its completion.
C31_HandlerFaultStillCompletes ==
    \A f \in Jobs :
        HandlerFaulted(f) =>
            /\ f \notin holders
            /\ CompletionsQueued(f) + Applied(f) >= 1
            /\ completed_count >= 1

\* the worker of f has recorded the completion of its job (lines 198-204)
CompletionRecorded(f) == tpc[f] \in {"release", "emit", "done"}

\* C32: once the worker has recorded the completion of a job, the
\* last-progress map holds no entry for the job's filename, also after the
\* consumer has drained the progress events of the job that were still
\* queued; so the map is empty when the run has finished.
C32_NoEntryAfterCompletion ==
    /\ \A f \in Jobs : CompletionRecorded(f) => f \notin DOMAIN progress_by_file
    /\ RunFinished => DOMAIN progress_by_file = {}


\* the task of f has put its completion event (line 218) and returned
CompletionPut(f) == tpc[f] = "done" /\ f \notin future_exc

\* C33: when main has set stop_event the queue is empty and stays empty (every
\* task has ended, so nothing is put after the signal), and when the consumer
\* thread has ended it holds no event it dequeued but did not apply, and it
\* has applied the completion event of every job that put one.
C33_StopAfterAllEventsTaken ==
    /\ stop_event =>
           /\ ui_events = << >>
           /\ \A f \in Jobs : tpc[f] = "done"
    /\ spc = "ended" =>
           /\ stop_event
           /\ cur_ev = None
           /\ \A f \in Jobs : CompletionPut(f) => Applied(f) = 1

\* the consumer has ended after the stop signal, having applied completions
\* and progress events of the run
C33_Witness ==
    /\ stop_event
    /\ spc = "ended"
    /\ \E f \in Jobs : CompletionPut(f) /\ Applied(f) = 1
    /\ DOMAIN progress_by_file # {}


\* the class compress_file gave the file, read from the type of its result
TreatedAs(ret) ==
    IF ret.type \in {VideoTag(1), VideoTag(2), VideoTag(3), "video-failed"} THEN "video"
    ELSE IF ret.type \in {ImageTag(1), ImageTag(2), "image-failed"} THEN "image"
    ELSE "other"

\* C35: for every extension pipeline.classify gives the class that
\* compress_file and the scheduler give: compress_file has run the video chain,
\* the image chain or skipped exactly when classify says video, image or
\* other, the filter of main lets the file through exactly when classify does
\* not say other, and the task takes the video limiter exactly when classify
\* says video.
C35_ClassifiersAgree ==
    c_pc = "ret" =>
        /\ classify(c_ext) = TreatedAs(c_ret)
        /\ (classify(c_ext) # "other") <=> (Lower(c_ext) \in allowed_exts)
        /\ (classify(c_ext) = "video") <=> (Lower(c_ext) \in VIDEO_EXTS)


\* C34: the orchestrator's wait for the external process ends: the streaming
\* attempt returns from proc.wait() and the sequential runner leaves its poll
\* loop, for every finite output of the process on stdout and stderr.
C34_WaitForProcessEnds == <>(x_pc = "done")

====
